---- MODULE Spec2Model ----
(***************************************************************************)
(* Transaction ledger (be/src/olap/txn_manager.cpp) and compaction         *)
(* scheduler (be/src/olap/olap_server.cpp) of the storage engine.          *)
(*                                                                         *)
(* Spec            the ledger driven by one caller: every action is one    *)
(*                 whole TxnManager call.                                  *)
(* SpecConc        the ledger driven by several caller threads: every      *)
(*                 action is one lock acquisition, one critical section    *)
(*                 or one I/O call of a TxnManager method.                 *)
(* SpecCompaction  _submit_compaction_task, the worker pool and the        *)
(*                 permit limiter.                                         *)
(***************************************************************************)
EXTENDS Integers, FiniteSets, Sequences, TLC

\* ------------------------------------------------------------------ bounds
MaxPartitionId == 1
MaxTxnId == 3
MaxTabletUid == 2
MaxLoadId == 2
MaxRowsetId == 2
MaxVersion == 1
MaxCalls == 3
NumThreads == 2
MaxConcCalls == 2
MaxCompactionTablets == 2
NumDataDirs == 1
NumSubmitters == 2
MaxPermits == 1
MaxSubmits == 3
MaxScore == 1
MaxFairSubmits == 2
MaxRounds == 3
MaxFairRounds == 2
MaxCumulativeRounds == 2
MaxSweepInterval == 3
MaxSweeps == 2
MaxCooldownTablets == 2
MaxCooldownRounds == 2

\* constructor arguments and configuration
txn_map_shard_size == 2
txn_shard_size == 2
max_runnings_transactions_per_txn_map == 1
total_permits_for_compaction_score == 1
compaction_task_num_per_disk == 2
compaction_task_num_per_fast_disk == 3

PartitionIds == 1..MaxPartitionId
TxnIds == 1..MaxTxnId
LoadIds == 1..MaxLoadId
RowsetIds == 1..MaxRowsetId
Versions == 1..MaxVersion
NullRowset == 0
Shards == 0..(txn_map_shard_size - 1)
TxnLocks == 0..(txn_shard_size - 1)
Threads == 1..NumThreads

\* TabletInfo(tablet_id, schema_hash, tablet_uid): the same tablet id and
\* schema hash under several tablet uids (a tablet that was re-created)
TabletInfos ==
    {[tablet_id |-> 5, schema_hash |-> 1, tablet_uid |-> u] : u \in 1..MaxTabletUid}

TxnKey(partition_id, transaction_id) == <<partition_id, transaction_id>>
TxnKeys == {TxnKey(p, t) : p \in PartitionIds, t \in TxnIds}

TabletTxnInfo(load_id, rowset) ==
    [load_id |-> load_id, rowset |-> rowset, unique_key_merge_on_write |-> FALSE]

VARIABLES
    txn_tablet_maps,     \* shard -> (TxnKey -> (TabletInfo -> TabletTxnInfo))
    txn_partition_maps,  \* shard -> (transaction_id -> set of partition_id)
    rowset_version,      \* rowset -> version().first of the rowset object
    meta_store,          \* rows of the rowset meta store: <<tablet_uid, rowset_id>>
    last,                \* the last finished ledger call: arguments, result, I/O done
    ncalls,              \* number of ledger calls started
    thread,              \* caller thread -> the call it is in and its position
    txn_mutex,           \* _txn_mutex[i]: the thread holding it, 0 when free
    map_wlock,           \* _txn_map_locks[s]: the thread holding it exclusively
    map_rlock,           \* _txn_map_locks[s]: the threads holding it shared
    tablet_submitted_cumu_compaction,  \* data dir -> tablet ids
    tablet_submitted_base_compaction,  \* data dir -> tablet ids
    wakeup_producer_flag,
    used_permits,        \* the permit limiter's outstanding permits
    tablet_compaction,   \* <<tablet id, type>> whose tablet holds a compaction object
    submitter,           \* thread in _submit_compaction_task -> call and position
    pool_tasks,          \* closures handed to the compaction pools, in submission order
    submit_last,         \* the last finished _submit_compaction_task call
    nsubmits,            \* number of _submit_compaction_task calls started
    ranking_last,        \* the last _generate_compaction_tasks round: inputs, result
    max_compaction_score,\* tablet_{base,cumulative}_max_compaction_score metrics
    producer,            \* the compaction producer thread: position and locals
    rounds,              \* the production rounds so far: class ranked, classes submitted
    stop_background_threads_latch, \* count of the CountDownLatch: 1, or 0 once signalled
    garbage_sweeper,     \* the garbage sweeper thread: intervals, usage, position
    cooldown             \* the cooldown producer: position, running set, pool queue

ledger == <<txn_tablet_maps, txn_partition_maps>>
ledger_vars == <<txn_tablet_maps, txn_partition_maps, rowset_version, meta_store,
                 last, ncalls>>
conc_vars == <<thread, txn_mutex, map_wlock, map_rlock>>
compaction_vars == <<tablet_submitted_cumu_compaction, tablet_submitted_base_compaction,
                     wakeup_producer_flag, used_permits, tablet_compaction, submitter,
                     pool_tasks, submit_last, nsubmits>>
ranking_vars == <<ranking_last, max_compaction_score>>
producer_vars == <<producer, rounds>>
loop_vars == <<stop_background_threads_latch, garbage_sweeper, cooldown>>
sched_vars == <<compaction_vars, ranking_vars, producer_vars, loop_vars>>

\* ----------------------------------------------------------- map helpers
MapRemove(f, k) == [x \in (DOMAIN f) \ {k} |-> f[x]]
MapPut(f, k, v) == [x \in (DOMAIN f) \cup {k} |-> IF x = k THEN v ELSE f[x]]
EmptyMap == [x \in {} |-> 0]

\* shard index of a transaction id: transaction_id & (shard_size - 1)
ShardOf(transaction_id) == transaction_id % txn_map_shard_size
TxnLockOf(transaction_id) == transaction_id % txn_shard_size

HasEntry(tm, key, tablet_info) ==
    key \in DOMAIN tm /\ tablet_info \in DOMAIN tm[key]

\* txn_tablet_map[key][tablet_info] = load_info
PutEntry(tm, key, tablet_info, load_info) ==
    MapPut(tm, key,
           MapPut(IF key \in DOMAIN tm THEN tm[key] ELSE EmptyMap, tablet_info, load_info))

insert_txn_partition_map_unlocked(pm, transaction_id, partition_id) ==
    MapPut(pm, transaction_id,
           (IF transaction_id \in DOMAIN pm THEN pm[transaction_id] ELSE {})
               \cup {partition_id})

clear_txn_partition_map_unlocked_keep_index(pm, transaction_id, partition_id) == pm

clear_txn_partition_map_unlocked(pm, transaction_id, partition_id) ==
    IF transaction_id \in DOMAIN pm
    THEN LET s == pm[transaction_id] \ {partition_id}
         IN IF s = {} THEN MapRemove(pm, transaction_id)
                      ELSE MapPut(pm, transaction_id, s)
    ELSE pm

\* it->second.erase(tablet_info); if (it->second.empty()) { erase(it); clear }
\* for a key that is in the map
EraseEntry(tm, pm, key, tablet_info) ==
    LET inner == MapRemove(tm[key], tablet_info)
    IN IF DOMAIN inner = {}
       THEN [tm |-> MapRemove(tm, key),
             pm |-> clear_txn_partition_map_unlocked(pm, key[2], key[1])]
       ELSE [tm |-> MapPut(tm, key, inner), pm |-> pm]

\* ------------------------------------------------- TxnManager::prepare_txn
\* the whole method: it runs under the shard's write lock
prepare_txn_locked(tm, pm, key, tablet_info, load_id) ==
    IF /\ HasEntry(tm, key, tablet_info)
       /\ tm[key][tablet_info].load_id = load_id
       /\ tm[key][tablet_info].rowset # NullRowset
    THEN [ret |-> "OK", tm |-> tm, pm |-> pm]
    ELSE IF Cardinality(DOMAIN pm) > max_runnings_transactions_per_txn_map
    THEN [ret |-> "TOO_MANY_TRANSACTIONS", tm |-> tm, pm |-> pm]
    ELSE [ret |-> "OK",
          tm |-> PutEntry(tm, key, tablet_info, TabletTxnInfo(load_id, NullRowset)),
          pm |-> insert_txn_partition_map_unlocked(pm, key[2], key[1])]

\* -------------------------------------------------- TxnManager::commit_txn
\* mutant: the duplicate check looks only for the same rowset id, so a
\* commit carrying another rowset id goes on to overwrite the entry
commit_txn_check_no_conflict(tm, key, tablet_info, load_id, rowset) ==
    IF /\ HasEntry(tm, key, tablet_info)
       /\ tm[key][tablet_info].load_id = load_id
       /\ tm[key][tablet_info].rowset = rowset
    THEN "OK"
    ELSE "CONTINUE"

\* the do { } while (false) block under the shard's read lock
commit_txn_check(tm, key, tablet_info, load_id, rowset) ==
    IF /\ HasEntry(tm, key, tablet_info)
       /\ tm[key][tablet_info].load_id = load_id
       /\ tm[key][tablet_info].rowset # NullRowset
    THEN IF tm[key][tablet_info].rowset = rowset
         THEN "OK"
         ELSE "PUSH_TRANSACTION_ALREADY_EXIST"
    ELSE "CONTINUE"

\* the block under the shard's write lock; mow: is_recovery and the tablet
\* is found and has unique-key merge-on-write enabled
commit_txn_install(tm, pm, key, tablet_info, load_id, rowset, mow) ==
    [tm |-> PutEntry(tm, key, tablet_info,
                     [TabletTxnInfo(load_id, rowset)
                          EXCEPT !.unique_key_merge_on_write = mow]),
     pm |-> insert_txn_partition_map_unlocked(pm, key[2], key[1])]

\* a commit that installs the entry whatever the meta save returned
commit_txn_finish_ignore_save(tm, pm, key, tablet_info, load_id, rowset, mow, save_ok) ==
    commit_txn_install(tm, pm, key, tablet_info, load_id, rowset, mow)

\* a failed meta save returns before the block under the write lock
commit_txn_finish(tm, pm, key, tablet_info, load_id, rowset, mow, save_ok) ==
    IF save_ok
    THEN commit_txn_install(tm, pm, key, tablet_info, load_id, rowset, mow)
    ELSE [tm |-> tm, pm |-> pm]

\* ------------------------------------------------- TxnManager::publish_txn
\* a lookup that finds a rowset where the ledger has no entry
publish_txn_lookup_always_found(tm, key, tablet_info) ==
    IF HasEntry(tm, key, tablet_info)
    THEN tm[key][tablet_info]
    ELSE TabletTxnInfo(0, 1)

\* Step 1: the rowset of the entry, NullRowset when there is no entry
publish_txn_lookup(tm, key, tablet_info) ==
    IF HasEntry(tm, key, tablet_info)
    THEN tm[key][tablet_info]
    ELSE TabletTxnInfo(0, NullRowset)

PublishFails == {"none", "update_delete_bitmap", "flush", "add_to_binlog", "save"}

\* Steps 2 to 4 after the lookup found a rowset: the calls made on the
\* collaborators, in order, and the status they end with. fail names the
\* collaborator call that fails, if it is reached.
publish_txn_steps_save_first(mow, partial_update, enable_binlog, fail) ==
    LET s2 == <<"make_visible">>
        bitmap == IF mow THEN s2 \o <<"update_delete_bitmap", "save_meta">> ELSE s2
        saved == bitmap \o <<"save">>
        binlog == IF enable_binlog THEN saved \o <<"add_to_binlog">> ELSE saved
    IN IF mow /\ fail = "update_delete_bitmap"
       THEN [ret |-> "UPDATE_DELETE_BITMAP_FAILED", io |-> s2 \o <<"update_delete_bitmap">>]
       ELSE IF fail = "save" THEN [ret |-> "ROWSET_SAVE_FAILED", io |-> saved]
       ELSE IF enable_binlog /\ fail = "add_to_binlog"
       THEN [ret |-> "ROWSET_ADD_TO_BINLOG_FAILED", io |-> binlog]
       ELSE IF fail = "none" THEN [ret |-> "OK", io |-> binlog]
       ELSE [ret |-> "FLUSH_FAILED", io |-> bitmap]

publish_txn_steps(mow, partial_update, enable_binlog, fail) ==
    LET s2 == <<"make_visible">>
        bitmap == IF mow THEN s2 \o <<"update_delete_bitmap">> ELSE s2
        bitmap_failed == mow /\ fail = "update_delete_bitmap"
        flush == IF mow /\ partial_update THEN bitmap \o <<"flush">> ELSE bitmap
        flush_failed == mow /\ partial_update /\ fail = "flush"
        merged == IF mow /\ partial_update
                  THEN flush \o <<"merge_rowset_meta", "erase_segment">>
                  ELSE flush
        s3 == IF mow THEN merged \o <<"save_meta">> ELSE merged
        binlog == IF enable_binlog THEN s3 \o <<"add_to_binlog">> ELSE s3
        binlog_failed == enable_binlog /\ fail = "add_to_binlog"
        s4 == binlog \o <<"save">>
    IN IF bitmap_failed THEN [ret |-> "UPDATE_DELETE_BITMAP_FAILED", io |-> bitmap]
       ELSE IF flush_failed THEN [ret |-> "FLUSH_FAILED", io |-> flush]
       ELSE IF binlog_failed
       THEN [ret |-> "ROWSET_ADD_TO_BINLOG_FAILED", io |-> binlog]
       ELSE IF fail = "save" THEN [ret |-> "ROWSET_SAVE_FAILED", io |-> s4]
       ELSE [ret |-> "OK", io |-> s4]

\* mutant: the entry is erased only together with its key
publish_txn_remove_last_only(tm, pm, key, tablet_info) ==
    IF key \in DOMAIN tm /\ (DOMAIN tm[key]) \ {tablet_info} = {}
    THEN EraseEntry(tm, pm, key, tablet_info)
    ELSE [tm |-> tm, pm |-> pm]

\* Step 5, under the transaction mutex and the shard's write lock
publish_txn_remove(tm, pm, key, tablet_info) ==
    IF key \in DOMAIN tm
    THEN EraseEntry(tm, pm, key, tablet_info)
    ELSE [tm |-> tm, pm |-> pm]

\* a publish that erases the entry whatever steps 2 to 4 returned
publish_txn_finish_always_remove(tm, pm, key, tablet_info, ret) ==
    publish_txn_remove(tm, pm, key, tablet_info)

\* every failure of steps 2 to 4 returns before Step 5
publish_txn_finish(tm, pm, key, tablet_info, ret) ==
    IF ret = "OK"
    THEN publish_txn_remove(tm, pm, key, tablet_info)
    ELSE [tm |-> tm, pm |-> pm]

\* ------------------------------------------------ TxnManager::rollback_txn
\* mutant: the rowset of the entry is not looked at
rollback_txn_locked_unchecked(tm, pm, key, tablet_info) ==
    IF key \in DOMAIN tm
    THEN LET e == EraseEntry(tm, pm, key, tablet_info)
         IN [ret |-> "OK", tm |-> e.tm, pm |-> e.pm]
    ELSE [ret |-> "OK", tm |-> tm, pm |-> pm]

rollback_txn_locked_by_tablet_id(tm, pm, key, tablet_info) ==
    IF key \in DOMAIN tm
    THEN LET same == {u \in DOMAIN tm[key] :
                        /\ u.tablet_id = tablet_info.tablet_id
                        /\ u.schema_hash = tablet_info.schema_hash}
             inner == [u \in (DOMAIN tm[key]) \ same |-> tm[key][u]]
         IN IF \E u \in same : tm[key][u].rowset # NullRowset
            THEN [ret |-> "TRANSACTION_ALREADY_COMMITTED", tm |-> tm, pm |-> pm]
            ELSE IF DOMAIN inner = {}
                 THEN [ret |-> "OK", tm |-> MapRemove(tm, key),
                       pm |-> clear_txn_partition_map_unlocked(pm, key[2], key[1])]
                 ELSE [ret |-> "OK", tm |-> MapPut(tm, key, inner), pm |-> pm]
    ELSE [ret |-> "OK", tm |-> tm, pm |-> pm]

rollback_txn_locked_keep_key(tm, pm, key, tablet_info) ==
    IF key \in DOMAIN tm
    THEN IF /\ tablet_info \in DOMAIN tm[key]
            /\ tm[key][tablet_info].rowset # NullRowset
         THEN [ret |-> "TRANSACTION_ALREADY_COMMITTED", tm |-> tm, pm |-> pm]
         ELSE [ret |-> "OK", tm |-> MapPut(tm, key, MapRemove(tm[key], tablet_info)),
               pm |-> pm]
    ELSE [ret |-> "OK", tm |-> tm, pm |-> pm]

rollback_txn_locked(tm, pm, key, tablet_info) ==
    IF key \in DOMAIN tm
    THEN IF /\ tablet_info \in DOMAIN tm[key]
            /\ tm[key][tablet_info].rowset # NullRowset
         THEN [ret |-> "TRANSACTION_ALREADY_COMMITTED", tm |-> tm, pm |-> pm]
         ELSE LET e == EraseEntry(tm, pm, key, tablet_info)
              IN [ret |-> "OK", tm |-> e.tm, pm |-> e.pm]
    ELSE [ret |-> "OK", tm |-> tm, pm |-> pm]

\* -------------------------------------------------- TxnManager::delete_txn
\* remove: the rowset whose meta RowsetMetaManager::remove is called for
delete_txn_locked(tm, pm, key, tablet_info, meta_nonnull, ver) ==
    IF key \notin DOMAIN tm
    THEN [ret |-> "TRANSACTION_NOT_EXIST", tm |-> tm, pm |-> pm, remove |-> NullRowset]
    ELSE LET rs == IF tablet_info \in DOMAIN tm[key]
                   THEN tm[key][tablet_info].rowset
                   ELSE NullRowset
             e == EraseEntry(tm, pm, key, tablet_info)
         IN IF rs # NullRowset /\ meta_nonnull
            THEN IF ver[rs] > 0
                 THEN [ret |-> "TRANSACTION_ALREADY_COMMITTED",
                       tm |-> tm, pm |-> pm, remove |-> NullRowset]
                 ELSE [ret |-> "OK", tm |-> e.tm, pm |-> e.pm, remove |-> rs]
            ELSE [ret |-> "OK", tm |-> e.tm, pm |-> e.pm, remove |-> NullRowset]

\* ------------------------ TxnManager::force_rollback_tablet_related_txns
\* one shard of the sweep; removed: the rowsets whose meta is removed
force_rollback_shard_keep_keys(tm, pm, tablet_info, meta_nonnull) ==
    [tm |-> [k \in DOMAIN tm |-> MapRemove(tm[k], tablet_info)],
     pm |-> pm,
     removed |-> IF meta_nonnull
                 THEN {tm[k][tablet_info].rowset :
                         k \in {x \in DOMAIN tm : tablet_info \in DOMAIN tm[x]}}
                      \ {NullRowset}
                 ELSE {}]

force_rollback_shard(tm, pm, tablet_info, meta_nonnull) ==
    LET keep == {k \in DOMAIN tm : (DOMAIN tm[k]) \ {tablet_info} # {}}
        gone == (DOMAIN tm) \ keep
        left(t) == pm[t] \ {k[1] : k \in {g \in gone : g[2] = t}}
    IN [tm |-> [k \in keep |-> MapRemove(tm[k], tablet_info)],
        pm |-> [t \in {x \in DOMAIN pm : left(x) # {}} |-> left(t)],
        removed |-> IF meta_nonnull
                    THEN {tm[k][tablet_info].rowset :
                            k \in {x \in DOMAIN tm : tablet_info \in DOMAIN tm[x]}}
                         \ {NullRowset}
                    ELSE {}]

\* ------------------------------ TxnManager::set_txn_related_delete_bitmap
set_txn_related_delete_bitmap_locked(tm, key, tablet_info, mow) ==
    IF HasEntry(tm, key, tablet_info)
    THEN MapPut(tm, key,
                MapPut(tm[key], tablet_info,
                       [tm[key][tablet_info] EXCEPT !.unique_key_merge_on_write = mow]))
    ELSE tm

Has(maps, key, tablet_info) == HasEntry(maps[ShardOf(key[2])], key, tablet_info)
Entry(maps, key, tablet_info) == maps[ShardOf(key[2])][key][tablet_info]

\* ===================================================== Spec: one caller
Call(op, key, tablet_info, load_id, rowset, version, flag, ret, io) ==
    [op |-> op, key |-> key, tablet_info |-> tablet_info, load_id |-> load_id,
     rowset |-> rowset, version |-> version, flag |-> flag, ret |-> ret, io |-> io]

NoTablet == [tablet_id |-> 0, schema_hash |-> 0, tablet_uid |-> 0]
NoCall == Call("none", TxnKey(0, 0), NoTablet, 0, NullRowset, 0, FALSE, "OK", <<>>)

SetShard(maps, s, m) == [maps EXCEPT ![s] = m]

LedgerInit ==
    /\ txn_tablet_maps = [s \in Shards |-> EmptyMap]
    /\ txn_partition_maps = [s \in Shards |-> EmptyMap]
    /\ rowset_version = [r \in RowsetIds |-> 0]
    /\ meta_store = {}
    /\ last = NoCall
    /\ ncalls = 0

Called ==
    /\ ncalls < MaxCalls
    /\ ncalls' = ncalls + 1
    /\ UNCHANGED <<conc_vars, sched_vars>>

prepare_txn(partition_id, transaction_id, tablet_info, load_id) ==
    LET s == ShardOf(transaction_id)
        key == TxnKey(partition_id, transaction_id)
        r == prepare_txn_locked(txn_tablet_maps[s], txn_partition_maps[s],
                                key, tablet_info, load_id)
    IN /\ Called
       /\ txn_tablet_maps' = SetShard(txn_tablet_maps, s, r.tm)
       /\ txn_partition_maps' = SetShard(txn_partition_maps, s, r.pm)
       /\ last' = Call("prepare", key, tablet_info, load_id, NullRowset, 0, FALSE,
                       r.ret, <<>>)
       /\ UNCHANGED <<rowset_version, meta_store>>

\* save_ok: the outcome of RowsetMetaManager::save; tablet_mow: the tablet is
\* found by the tablet manager and has merge-on-write enabled
commit_txn(partition_id, transaction_id, tablet_info, load_id, rowset, is_recovery) ==
    LET s == ShardOf(transaction_id)
        key == TxnKey(partition_id, transaction_id)
        tm == txn_tablet_maps[s]
        pm == txn_partition_maps[s]
        check == IF rowset = NullRowset
                 THEN "ROWSET_INVALID"
                 ELSE commit_txn_check(tm, key, tablet_info, load_id, rowset)
    IN /\ Called
       /\ UNCHANGED rowset_version
       /\ IF check # "CONTINUE"
          THEN /\ last' = Call("commit", key, tablet_info, load_id, rowset, 0,
                               is_recovery, check, <<>>)
               /\ UNCHANGED <<txn_tablet_maps, txn_partition_maps, meta_store>>
          ELSE \E save_ok \in (IF is_recovery THEN {TRUE} ELSE BOOLEAN),
                  tablet_mow \in (IF is_recovery THEN BOOLEAN ELSE {FALSE}) :
                 LET r == commit_txn_finish(tm, pm, key, tablet_info, load_id,
                                            rowset, is_recovery /\ tablet_mow, save_ok)
                     io == IF is_recovery THEN <<>> ELSE <<"save">>
                 IN /\ meta_store' =
                           IF is_recovery \/ ~save_ok THEN meta_store
                           ELSE meta_store \cup {<<tablet_info.tablet_uid, rowset>>}
                    /\ txn_tablet_maps' = SetShard(txn_tablet_maps, s, r.tm)
                    /\ txn_partition_maps' = SetShard(txn_partition_maps, s, r.pm)
                    /\ last' = Call("commit", key, tablet_info, load_id, rowset, 0,
                                    is_recovery,
                                    IF save_ok THEN "OK" ELSE "ROWSET_SAVE_FAILED", io)

\* tablet_exists: the tablet manager still has the tablet; partial_update:
\* the rowset's schema is a partial update; enable_binlog: the tablet's
\* binlog is enabled; fail: the collaborator call that fails
publish_txn(partition_id, transaction_id, tablet_info, version) ==
    LET s == ShardOf(transaction_id)
        key == TxnKey(partition_id, transaction_id)
        tm == txn_tablet_maps[s]
        pm == txn_partition_maps[s]
        info == publish_txn_lookup(tm, key, tablet_info)
    IN /\ Called
       /\ \E tablet_exists \in BOOLEAN :
            IF ~tablet_exists
            THEN /\ last' = Call("publish", key, tablet_info, 0, NullRowset, version,
                                 FALSE, "OK", <<>>)
                 /\ UNCHANGED <<txn_tablet_maps, txn_partition_maps, rowset_version,
                                meta_store>>
            ELSE IF info.rowset = NullRowset
            THEN /\ last' = Call("publish", key, tablet_info, 0, NullRowset, version,
                                 TRUE, "TRANSACTION_NOT_EXIST", <<>>)
                 /\ UNCHANGED <<txn_tablet_maps, txn_partition_maps, rowset_version,
                                meta_store>>
            ELSE \E partial_update \in (IF info.unique_key_merge_on_write
                                        THEN BOOLEAN ELSE {FALSE}),
                    enable_binlog \in BOOLEAN, fail \in PublishFails :
                  LET steps == publish_txn_steps(info.unique_key_merge_on_write,
                                                 partial_update, enable_binlog, fail)
                      r == publish_txn_finish(tm, pm, key, tablet_info, steps.ret)
                  IN /\ fail = "none" \/ steps.ret # "OK"
                     /\ rowset_version' =
                            [rowset_version EXCEPT ![info.rowset] = version]
                     /\ meta_store' =
                            IF steps.ret = "OK"
                            THEN meta_store
                                     \cup {<<tablet_info.tablet_uid, info.rowset>>}
                            ELSE meta_store
                     /\ txn_tablet_maps' = SetShard(txn_tablet_maps, s, r.tm)
                     /\ txn_partition_maps' = SetShard(txn_partition_maps, s, r.pm)
                     /\ last' = Call("publish", key, tablet_info, info.load_id,
                                     info.rowset, version, TRUE, steps.ret,
                                     IF steps.ret = "OK" THEN steps.io \o <<"erase">>
                                     ELSE steps.io)

\* last.flag: the entry was found (load_itr != it->second.end())
rollback_txn(partition_id, transaction_id, tablet_info) ==
    LET s == ShardOf(transaction_id)
        key == TxnKey(partition_id, transaction_id)
        r == rollback_txn_locked(txn_tablet_maps[s], txn_partition_maps[s],
                                 key, tablet_info)
    IN /\ Called
       /\ txn_tablet_maps' = SetShard(txn_tablet_maps, s, r.tm)
       /\ txn_partition_maps' = SetShard(txn_partition_maps, s, r.pm)
       /\ last' = Call("rollback", key, tablet_info, 0, NullRowset, 0,
                       HasEntry(txn_tablet_maps[s], key, tablet_info), r.ret, <<>>)
       /\ UNCHANGED <<rowset_version, meta_store>>

\* last.flag is the value has_txn returns
has_txn(partition_id, transaction_id, tablet_info) ==
    LET key == TxnKey(partition_id, transaction_id)
    IN /\ Called
       /\ last' = Call("has_txn", key, tablet_info, 0, NullRowset, 0,
                       Has(txn_tablet_maps, key, tablet_info), "OK", <<>>)
       /\ UNCHANGED <<txn_tablet_maps, txn_partition_maps, rowset_version,
                      meta_store>>

\* meta_nonnull: the OlapMeta* argument is not nullptr
delete_txn(partition_id, transaction_id, tablet_info, meta_nonnull) ==
    LET s == ShardOf(transaction_id)
        key == TxnKey(partition_id, transaction_id)
        r == delete_txn_locked(txn_tablet_maps[s], txn_partition_maps[s],
                               key, tablet_info, meta_nonnull, rowset_version)
    IN /\ Called
       /\ txn_tablet_maps' = SetShard(txn_tablet_maps, s, r.tm)
       /\ txn_partition_maps' = SetShard(txn_partition_maps, s, r.pm)
       /\ meta_store' = IF r.remove # NullRowset
                        THEN meta_store \ {<<tablet_info.tablet_uid, r.remove>>}
                        ELSE meta_store
       /\ last' = Call("delete", key, tablet_info, 0, r.remove, 0, meta_nonnull,
                       r.ret, IF r.remove # NullRowset THEN <<"remove">> ELSE <<>>)
       /\ UNCHANGED rowset_version

force_rollback_tablet_related_txns(tablet_info, meta_nonnull) ==
    LET r == [s \in Shards |->
                 force_rollback_shard(txn_tablet_maps[s], txn_partition_maps[s],
                                      tablet_info, meta_nonnull)]
        removed == UNION {r[s].removed : s \in Shards}
    IN /\ Called
       /\ txn_tablet_maps' = [s \in Shards |-> r[s].tm]
       /\ txn_partition_maps' = [s \in Shards |-> r[s].pm]
       /\ meta_store' = meta_store \ {<<tablet_info.tablet_uid, x>> : x \in removed}
       /\ last' = Call("force_rollback", TxnKey(0, 0), tablet_info, 0, NullRowset, 0,
                       meta_nonnull, "OK",
                       IF removed # {} THEN <<"remove">> ELSE <<>>)
       /\ UNCHANGED rowset_version

\* called by the delta writer for an entry it has prepared or committed
set_txn_related_delete_bitmap(partition_id, transaction_id, tablet_info, mow) ==
    LET s == ShardOf(transaction_id)
        key == TxnKey(partition_id, transaction_id)
    IN /\ Called
       /\ HasEntry(txn_tablet_maps[s], key, tablet_info)
       /\ txn_tablet_maps' =
              SetShard(txn_tablet_maps, s,
                       set_txn_related_delete_bitmap_locked(txn_tablet_maps[s], key,
                                                            tablet_info, mow))
       /\ last' = Call("set_delete_bitmap", key, tablet_info, 0, NullRowset, 0, mow,
                       "OK", <<>>)
       /\ UNCHANGED <<txn_partition_maps, rowset_version, meta_store>>

vars == <<ledger_vars, conc_vars, compaction_vars, ranking_vars, producer_vars, loop_vars>>

\* ------------------------------------------------ compaction submission
DataDirs == 0..(NumDataDirs - 1)
CompactionTabletIds == 1..MaxCompactionTablets
\* a tablet lives in one data dir
CompactionTablets ==
    {[tablet_id |-> i, data_dir |-> i % NumDataDirs] : i \in CompactionTabletIds}
CompactionTypes == {"CUMULATIVE_COMPACTION", "BASE_COMPACTION"}
Submitters == 1..NumSubmitters

NoCompactionTablet == [tablet_id |-> 0, data_dir |-> 0]
IdleSubmitter ==
    [pc |-> "idle", tablet |-> NoCompactionTablet, compaction_type |-> "none",
     force |-> FALSE, permits |-> 0, ret |-> "OK",
     requested |-> FALSE, released |-> 0, resets |-> 0]
Submit(tablet, compaction_type, force, ret) ==
    [tablet |-> tablet, compaction_type |-> compaction_type, force |-> force,
     ret |-> ret]
NoSubmit == Submit(NoCompactionTablet, "none", FALSE, "OK")

CompactionInit ==
    /\ tablet_submitted_cumu_compaction = [d \in DataDirs |-> {}]
    /\ tablet_submitted_base_compaction = [d \in DataDirs |-> {}]
    /\ wakeup_producer_flag = 0
    /\ used_permits = 0
    /\ tablet_compaction = {}
    /\ submitter = [s \in Submitters |-> IdleSubmitter]
    /\ pool_tasks = <<>>
    /\ submit_last = NoSubmit
    /\ nsubmits = 0

NoRanking ==
    [compaction_type |-> "none", check_score |-> FALSE,
     thread_per_disk |-> [d \in DataDirs |-> 0],
     need_pick_tablet |-> [d \in DataDirs |-> FALSE], tablets |-> {},
     disable_auto_compaction |-> [d \in DataDirs |-> FALSE],
     is_ssd_disk |-> [d \in DataDirs |-> FALSE]]

\* the producer thread at the top of its loop: round = 0, nothing ranked yet
IdleProducer ==
    [pc |-> "loop", round |-> 0, compaction_type |-> "none",
     cumulative_compaction_rounds_for_each_base_compaction_round |-> MaxCumulativeRounds,
     tablets |-> {}, done_at_scan |-> 0, woken_by |-> "none"]

ProducerInit ==
    /\ producer = IdleProducer
    /\ rounds = <<>>

\* the sweeper before its first wait: curr_interval = min_interval, usage = 1.0
IdleSweeper ==
    [pc |-> "wait", min_interval |-> 1, max_interval |-> 1, usage |-> 100,
     curr_interval |-> 1, swept_interval |-> 0, sweeps |-> 0]

\* the cooldown producer at the top of its loop, nothing running
IdleCooldown ==
    [pc |-> "round", tablets |-> {}, running_cooldown_tablets |-> {}, queue |-> {},
     rounds |-> 0]

LoopInit ==
    /\ stop_background_threads_latch = 1
    /\ garbage_sweeper = IdleSweeper
    /\ cooldown = IdleCooldown

RankingInit ==
    /\ ranking_last = NoRanking
    /\ max_compaction_score = [base |-> 0, cumulative |-> 0]

\* the data dirs of the store map: each is an SSD or not for good
DataDirsInit ==
    /\ max_compaction_score = [base |-> 0, cumulative |-> 0]
    /\ \E is_ssd_disk \in [DataDirs -> BOOLEAN] :
         ranking_last = [NoRanking EXCEPT !.is_ssd_disk = is_ssd_disk]

IdleThread ==
    [pc |-> "idle", op |-> "none", key |-> TxnKey(0, 0), tablet_info |-> NoTablet,
     load_id |-> 0, rowset |-> NullRowset, version |-> 0, flag |-> FALSE,
     found |-> NullRowset, mow |-> FALSE, shard |-> 0, io |-> <<>>]

ConcInit ==
    /\ thread = [t \in Threads |-> IdleThread]
    /\ txn_mutex = [i \in TxnLocks |-> 0]
    /\ map_wlock = [s \in Shards |-> 0]
    /\ map_rlock = [s \in Shards |-> {}]

Init == LedgerInit /\ ConcInit /\ CompactionInit /\ RankingInit /\ ProducerInit /\ LoopInit

Next ==
    \E p \in PartitionIds, t \in TxnIds, tab \in TabletInfos :
        \/ \E l \in LoadIds : prepare_txn(p, t, tab, l)
        \/ \E l \in LoadIds, r \in RowsetIds \cup {NullRowset}, rec \in BOOLEAN :
              commit_txn(p, t, tab, l, r, rec)
        \/ \E v \in Versions : publish_txn(p, t, tab, v)
        \/ rollback_txn(p, t, tab)
        \/ has_txn(p, t, tab)
        \/ \E m \in BOOLEAN : delete_txn(p, t, tab, m)
        \/ \E m \in BOOLEAN : force_rollback_tablet_related_txns(tab, m)
        \/ \E m \in BOOLEAN : set_txn_related_delete_bitmap(p, t, tab, m)


Spec == Init /\ [][Next]_vars

\* ============================================ SpecConc: caller threads
\* Every caller thread runs one TxnManager call at a time. A step is one
\* lock acquisition, or one critical section together with the release of
\* the locks whose scope ends with it, or one call on a collaborator.
ConcTablet == [tablet_id |-> 5, schema_hash |-> 1, tablet_uid |-> 1]
ConcKeys == {TxnKey(1, t) : t \in 1..2}

\* ledgers the single caller of Spec reaches: empty, one prepared entry, one
\* committed entry with its rowset meta saved
ConcLedgers ==
    LET s == ShardOf(1)
        key == TxnKey(1, 1)
        p == prepare_txn_locked(EmptyMap, EmptyMap, key, ConcTablet, 1)
        c == commit_txn_install(p.tm, p.pm, key, ConcTablet, 1, 1, FALSE)
        empty == [x \in Shards |-> EmptyMap]
    IN {[tm |-> empty, pm |-> empty, meta |-> {}],
        [tm |-> SetShard(empty, s, p.tm), pm |-> SetShard(empty, s, p.pm), meta |-> {}],
        [tm |-> SetShard(empty, s, c.tm), pm |-> SetShard(empty, s, c.pm),
         meta |-> {<<ConcTablet.tablet_uid, 1>>}]}

InitConc ==
    /\ \E l \in ConcLedgers :
         /\ txn_tablet_maps = l.tm
         /\ txn_partition_maps = l.pm
         /\ meta_store = l.meta
    /\ rowset_version = [r \in RowsetIds |-> 0]
    /\ last = NoCall
    /\ ncalls = 0
    /\ ConcInit
    /\ CompactionInit
    /\ RankingInit
    /\ ProducerInit
    /\ LoopInit

Me(t) == thread[t]
At(t, pc) == thread[t].pc = pc
Goto(t, pc) == thread' = [thread EXCEPT ![t].pc = pc]
Return(t, ret) ==
    /\ thread' = [thread EXCEPT ![t] = IdleThread]
    /\ last' = Call(Me(t).op, Me(t).key, Me(t).tablet_info, Me(t).load_id,
                    Me(t).rowset, Me(t).version, Me(t).flag, ret, Me(t).io)
ReturnIo(t, ret, io) ==
    /\ thread' = [thread EXCEPT ![t] = IdleThread]
    /\ last' = Call(Me(t).op, Me(t).key, Me(t).tablet_info, Me(t).load_id,
                    Me(t).rowset, Me(t).version, Me(t).flag, ret, io)

MyShard(t) == ShardOf(Me(t).key[2])
MyTxnLock(t) == TxnLockOf(Me(t).key[2])

\* std::mutex and std::shared_mutex
TxnLockFree(t) == txn_mutex[MyTxnLock(t)] = 0
LockTxn(t) == txn_mutex' = [txn_mutex EXCEPT ![MyTxnLock(t)] = t]
UnlockTxn(t) == txn_mutex' = [txn_mutex EXCEPT ![MyTxnLock(t)] = 0]
WrLockFree(s) == map_wlock[s] = 0 /\ map_rlock[s] = {}
WrLock(t, s) == map_wlock' = [map_wlock EXCEPT ![s] = t]
WrUnlock(s) == map_wlock' = [map_wlock EXCEPT ![s] = 0]
RdLockFree(s) == map_wlock[s] = 0
RdLock(t, s) == map_rlock' = [map_rlock EXCEPT ![s] = @ \cup {t}]
RdUnlock(t, s) == map_rlock' = [map_rlock EXCEPT ![s] = @ \ {t}]

FirstPc(op) ==
    CASE op = "prepare" -> "prepare_lock"
      [] op = "commit" -> "commit_lock_txn"
      [] op = "publish" -> "publish_lock_txn"
      [] op = "rollback" -> "rollback_lock"
      [] op = "delete" -> "delete_lock"
      [] op = "set_delete_bitmap" -> "set_lock_txn"
      [] op = "force_rollback" -> "force_lock"

\* a thread enters a TxnManager method
conc_call(t, op, key, load_id, rowset, version, flag) ==
    /\ At(t, "idle")
    /\ ncalls < MaxConcCalls
    /\ ncalls' = ncalls + 1
    /\ thread' = [thread EXCEPT ![t] =
                     [IdleThread EXCEPT !.pc = FirstPc(op), !.op = op, !.key = key,
                                        !.tablet_info = ConcTablet, !.load_id = load_id,
                                        !.rowset = rowset, !.version = version,
                                        !.flag = flag]]
    /\ UNCHANGED <<sched_vars, txn_tablet_maps, txn_partition_maps, rowset_version, meta_store,
                   last, txn_mutex, map_wlock, map_rlock>>

\* ---- prepare_txn: one scope under the shard's write lock
conc_prepare_lock(t) ==
    /\ At(t, "prepare_lock")
    /\ WrLockFree(MyShard(t))
    /\ WrLock(t, MyShard(t))
    /\ Goto(t, "prepare_body")
    /\ UNCHANGED <<sched_vars, txn_tablet_maps, txn_partition_maps, rowset_version, meta_store,
                   last, ncalls, txn_mutex, map_rlock>>

conc_prepare_body(t) ==
    LET s == MyShard(t)
        r == prepare_txn_locked(txn_tablet_maps[s], txn_partition_maps[s],
                                Me(t).key, Me(t).tablet_info, Me(t).load_id)
    IN /\ At(t, "prepare_body")
       /\ txn_tablet_maps' = SetShard(txn_tablet_maps, s, r.tm)
       /\ txn_partition_maps' = SetShard(txn_partition_maps, s, r.pm)
       /\ WrUnlock(s)
       /\ Return(t, r.ret)
       /\ UNCHANGED <<sched_vars, rowset_version, meta_store, ncalls, txn_mutex, map_rlock>>

\* ---- commit_txn
conc_commit_lock_txn(t) ==
    /\ At(t, "commit_lock_txn")
    /\ IF Me(t).rowset = NullRowset
       THEN /\ Return(t, "ROWSET_INVALID")
            /\ UNCHANGED txn_mutex
       ELSE /\ TxnLockFree(t)
            /\ LockTxn(t)
            /\ Goto(t, "commit_rdlock")
            /\ UNCHANGED last
    /\ UNCHANGED <<sched_vars, txn_tablet_maps, txn_partition_maps, rowset_version, meta_store,
                   ncalls, map_wlock, map_rlock>>

conc_commit_rdlock(t) ==
    /\ At(t, "commit_rdlock")
    /\ RdLockFree(MyShard(t))
    /\ RdLock(t, MyShard(t))
    /\ Goto(t, "commit_check")
    /\ UNCHANGED <<sched_vars, txn_tablet_maps, txn_partition_maps, rowset_version, meta_store,
                   last, ncalls, txn_mutex, map_wlock>>

conc_commit_check(t) ==
    LET s == MyShard(t)
        check == commit_txn_check(txn_tablet_maps[s], Me(t).key, Me(t).tablet_info,
                                  Me(t).load_id, Me(t).rowset)
    IN /\ At(t, "commit_check")
       /\ RdUnlock(t, s)
       /\ IF check # "CONTINUE"
          THEN /\ UnlockTxn(t)
               /\ Return(t, check)
          ELSE /\ Goto(t, IF Me(t).flag THEN "commit_wrlock" ELSE "commit_save")
               /\ UNCHANGED <<txn_mutex, last>>
       /\ UNCHANGED <<sched_vars, txn_tablet_maps, txn_partition_maps, rowset_version, meta_store,
                      ncalls, map_wlock>>

\* RowsetMetaManager::save under the transaction mutex, outside the shard lock
conc_commit_save(t) ==
    /\ At(t, "commit_save")
    /\ \E save_ok \in BOOLEAN :
         IF save_ok
         THEN /\ meta_store' = meta_store
                      \cup {<<Me(t).tablet_info.tablet_uid, Me(t).rowset>>}
              /\ thread' = [thread EXCEPT ![t].pc = "commit_wrlock",
                                          ![t].io = <<"save">>]
              /\ UNCHANGED <<txn_mutex, last>>
         ELSE /\ UnlockTxn(t)
              /\ ReturnIo(t, "ROWSET_SAVE_FAILED", <<"save">>)
              /\ UNCHANGED meta_store
    /\ UNCHANGED <<sched_vars, txn_tablet_maps, txn_partition_maps, rowset_version, ncalls,
                   map_wlock, map_rlock>>

conc_commit_wrlock(t) ==
    /\ At(t, "commit_wrlock")
    /\ WrLockFree(MyShard(t))
    /\ WrLock(t, MyShard(t))
    /\ Goto(t, "commit_install")
    /\ UNCHANGED <<sched_vars, txn_tablet_maps, txn_partition_maps, rowset_version, meta_store,
                   last, ncalls, txn_mutex, map_rlock>>

conc_commit_install(t) ==
    LET s == MyShard(t)
    IN /\ At(t, "commit_install")
       /\ \E tablet_mow \in (IF Me(t).flag THEN BOOLEAN ELSE {FALSE}) :
            LET r == commit_txn_install(txn_tablet_maps[s], txn_partition_maps[s],
                                        Me(t).key, Me(t).tablet_info, Me(t).load_id,
                                        Me(t).rowset, Me(t).flag /\ tablet_mow)
            IN /\ txn_tablet_maps' = SetShard(txn_tablet_maps, s, r.tm)
               /\ txn_partition_maps' = SetShard(txn_partition_maps, s, r.pm)
       /\ WrUnlock(s)
       /\ UnlockTxn(t)
       /\ Return(t, "OK")
       /\ UNCHANGED <<sched_vars, rowset_version, meta_store, ncalls, map_rlock>>

\* ---- publish_txn
conc_publish_lock_txn(t) ==
    /\ At(t, "publish_lock_txn")
    /\ \E tablet_exists \in BOOLEAN :
         IF ~tablet_exists
         THEN /\ Return(t, "OK")
              /\ UNCHANGED txn_mutex
         ELSE /\ TxnLockFree(t)
              /\ LockTxn(t)
              /\ thread' = [thread EXCEPT ![t].pc = "publish_rdlock", ![t].flag = TRUE]
              /\ UNCHANGED last
    /\ UNCHANGED <<sched_vars, txn_tablet_maps, txn_partition_maps, rowset_version, meta_store,
                   ncalls, map_wlock, map_rlock>>

conc_publish_rdlock(t) ==
    /\ At(t, "publish_rdlock")
    /\ RdLockFree(MyShard(t))
    /\ RdLock(t, MyShard(t))
    /\ Goto(t, "publish_lookup")
    /\ UNCHANGED <<sched_vars, txn_tablet_maps, txn_partition_maps, rowset_version, meta_store,
                   last, ncalls, txn_mutex, map_wlock>>

\* Step 1; the scope of both locks ends with it
conc_publish_lookup(t) ==
    LET info == publish_txn_lookup(txn_tablet_maps[MyShard(t)], Me(t).key,
                                   Me(t).tablet_info)
    IN /\ At(t, "publish_lookup")
       /\ RdUnlock(t, MyShard(t))
       /\ UnlockTxn(t)
       /\ IF info.rowset = NullRowset
          THEN Return(t, "TRANSACTION_NOT_EXIST")
          ELSE /\ thread' = [thread EXCEPT ![t].pc = "publish_visible",
                                           ![t].found = info.rowset,
                                           ![t].rowset = info.rowset,
                                           ![t].load_id = info.load_id,
                                           ![t].mow = info.unique_key_merge_on_write]
               /\ UNCHANGED last
       /\ UNCHANGED <<sched_vars, txn_tablet_maps, txn_partition_maps, rowset_version, meta_store,
                      ncalls, map_wlock>>

\* Step 2: rowset->make_visible(version), no lock held
conc_publish_visible(t) ==
    /\ At(t, "publish_visible")
    /\ rowset_version' = [rowset_version EXCEPT ![Me(t).found] = Me(t).version]
    /\ Goto(t, "publish_io")
    /\ UNCHANGED <<sched_vars, txn_tablet_maps, txn_partition_maps, meta_store, last, ncalls,
                   txn_mutex, map_wlock, map_rlock>>

\* the rest of Step 2, Step 3 and Step 4, no lock held
conc_publish_io(t) ==
    /\ At(t, "publish_io")
    /\ \E partial_update \in (IF Me(t).mow THEN BOOLEAN ELSE {FALSE}),
          enable_binlog \in BOOLEAN, fail \in PublishFails :
         LET steps == publish_txn_steps(Me(t).mow, partial_update, enable_binlog, fail)
         IN /\ fail = "none" \/ steps.ret # "OK"
            /\ IF steps.ret = "OK"
               THEN /\ meta_store' = meta_store
                            \cup {<<Me(t).tablet_info.tablet_uid, Me(t).found>>}
                    /\ thread' = [thread EXCEPT ![t].pc = "publish_lock_txn2",
                                                ![t].io = steps.io]
                    /\ UNCHANGED last
               ELSE /\ ReturnIo(t, steps.ret, steps.io)
                    /\ UNCHANGED meta_store
    /\ UNCHANGED <<sched_vars, txn_tablet_maps, txn_partition_maps, rowset_version, ncalls,
                   txn_mutex, map_wlock, map_rlock>>

conc_publish_lock_txn2(t) ==
    /\ At(t, "publish_lock_txn2")
    /\ TxnLockFree(t)
    /\ LockTxn(t)
    /\ Goto(t, "publish_wrlock")
    /\ UNCHANGED <<sched_vars, txn_tablet_maps, txn_partition_maps, rowset_version, meta_store,
                   last, ncalls, map_wlock, map_rlock>>

conc_publish_wrlock(t) ==
    /\ At(t, "publish_wrlock")
    /\ WrLockFree(MyShard(t))
    /\ WrLock(t, MyShard(t))
    /\ Goto(t, "publish_remove")
    /\ UNCHANGED <<sched_vars, txn_tablet_maps, txn_partition_maps, rowset_version, meta_store,
                   last, ncalls, txn_mutex, map_rlock>>

\* Step 5
conc_publish_remove(t) ==
    LET s == MyShard(t)
        r == publish_txn_remove(txn_tablet_maps[s], txn_partition_maps[s],
                                Me(t).key, Me(t).tablet_info)
    IN /\ At(t, "publish_remove")
       /\ txn_tablet_maps' = SetShard(txn_tablet_maps, s, r.tm)
       /\ txn_partition_maps' = SetShard(txn_partition_maps, s, r.pm)
       /\ WrUnlock(s)
       /\ UnlockTxn(t)
       /\ ReturnIo(t, "OK", Me(t).io \o <<"erase">>)
       /\ UNCHANGED <<sched_vars, rowset_version, meta_store, ncalls, map_rlock>>

\* ---- rollback_txn: one scope under the shard's write lock
conc_rollback_lock(t) ==
    /\ At(t, "rollback_lock")
    /\ WrLockFree(MyShard(t))
    /\ WrLock(t, MyShard(t))
    /\ Goto(t, "rollback_body")
    /\ UNCHANGED <<sched_vars, txn_tablet_maps, txn_partition_maps, rowset_version, meta_store,
                   last, ncalls, txn_mutex, map_rlock>>

conc_rollback_body(t) ==
    LET s == MyShard(t)
        r == rollback_txn_locked(txn_tablet_maps[s], txn_partition_maps[s],
                                 Me(t).key, Me(t).tablet_info)
    IN /\ At(t, "rollback_body")
       /\ txn_tablet_maps' = SetShard(txn_tablet_maps, s, r.tm)
       /\ txn_partition_maps' = SetShard(txn_partition_maps, s, r.pm)
       /\ WrUnlock(s)
       /\ Return(t, r.ret)
       /\ UNCHANGED <<sched_vars, rowset_version, meta_store, ncalls, txn_mutex, map_rlock>>

\* ---- delete_txn: one scope under the shard's write lock, the meta removal
\* included
conc_delete_lock(t) ==
    /\ At(t, "delete_lock")
    /\ WrLockFree(MyShard(t))
    /\ WrLock(t, MyShard(t))
    /\ Goto(t, "delete_body")
    /\ UNCHANGED <<sched_vars, txn_tablet_maps, txn_partition_maps, rowset_version, meta_store,
                   last, ncalls, txn_mutex, map_rlock>>

conc_delete_body(t) ==
    LET s == MyShard(t)
        r == delete_txn_locked(txn_tablet_maps[s], txn_partition_maps[s], Me(t).key,
                               Me(t).tablet_info, Me(t).flag, rowset_version)
    IN /\ At(t, "delete_body")
       /\ txn_tablet_maps' = SetShard(txn_tablet_maps, s, r.tm)
       /\ txn_partition_maps' = SetShard(txn_partition_maps, s, r.pm)
       /\ meta_store' = IF r.remove # NullRowset
                        THEN meta_store \ {<<Me(t).tablet_info.tablet_uid, r.remove>>}
                        ELSE meta_store
       /\ WrUnlock(s)
       /\ ReturnIo(t, r.ret, IF r.remove # NullRowset THEN <<"remove">> ELSE <<>>)
       /\ UNCHANGED <<sched_vars, rowset_version, ncalls, txn_mutex, map_rlock>>

\* ---- set_txn_related_delete_bitmap
conc_set_lock_txn(t) ==
    /\ At(t, "set_lock_txn")
    /\ TxnLockFree(t)
    /\ LockTxn(t)
    /\ Goto(t, "set_wrlock")
    /\ UNCHANGED <<sched_vars, txn_tablet_maps, txn_partition_maps, rowset_version, meta_store,
                   last, ncalls, map_wlock, map_rlock>>

conc_set_wrlock(t) ==
    /\ At(t, "set_wrlock")
    /\ WrLockFree(MyShard(t))
    /\ WrLock(t, MyShard(t))
    /\ Goto(t, "set_body")
    /\ UNCHANGED <<sched_vars, txn_tablet_maps, txn_partition_maps, rowset_version, meta_store,
                   last, ncalls, txn_mutex, map_rlock>>

\* a return path that leaves the per-transaction mutex locked
conc_set_body_keep_txn_lock(t) ==
    LET s == MyShard(t)
    IN /\ At(t, "set_body")
       /\ txn_tablet_maps' =
              SetShard(txn_tablet_maps, s,
                       set_txn_related_delete_bitmap_locked(
                           txn_tablet_maps[s], Me(t).key, Me(t).tablet_info, Me(t).flag))
       /\ WrUnlock(s)
       /\ Return(t, "OK")
       /\ UNCHANGED <<sched_vars, txn_partition_maps, rowset_version, meta_store, ncalls,
                      map_rlock, txn_mutex>>

conc_set_body(t) ==
    LET s == MyShard(t)
    IN /\ At(t, "set_body")
       /\ txn_tablet_maps' =
              SetShard(txn_tablet_maps, s,
                       set_txn_related_delete_bitmap_locked(
                           txn_tablet_maps[s], Me(t).key, Me(t).tablet_info, Me(t).flag))
       /\ WrUnlock(s)
       /\ UnlockTxn(t)
       /\ Return(t, "OK")
       /\ UNCHANGED <<sched_vars, txn_partition_maps, rowset_version, meta_store, ncalls, map_rlock>>

\* ---- force_rollback_tablet_related_txns: shard after shard
conc_force_lock(t) ==
    /\ At(t, "force_lock")
    /\ WrLockFree(Me(t).shard)
    /\ WrLock(t, Me(t).shard)
    /\ Goto(t, "force_body")
    /\ UNCHANGED <<sched_vars, txn_tablet_maps, txn_partition_maps, rowset_version, meta_store,
                   last, ncalls, txn_mutex, map_rlock>>

conc_force_body(t) ==
    LET s == Me(t).shard
        r == force_rollback_shard(txn_tablet_maps[s], txn_partition_maps[s],
                                  Me(t).tablet_info, Me(t).flag)
        io == IF r.removed # {} THEN Me(t).io \o <<"remove">> ELSE Me(t).io
    IN /\ At(t, "force_body")
       /\ txn_tablet_maps' = SetShard(txn_tablet_maps, s, r.tm)
       /\ txn_partition_maps' = SetShard(txn_partition_maps, s, r.pm)
       /\ meta_store' = meta_store
              \ {<<Me(t).tablet_info.tablet_uid, x>> : x \in r.removed}
       /\ WrUnlock(s)
       /\ IF s + 1 < txn_map_shard_size
          THEN /\ thread' = [thread EXCEPT ![t].pc = "force_lock", ![t].shard = s + 1,
                                           ![t].io = io]
               /\ UNCHANGED last
          ELSE ReturnIo(t, "OK", io)
       /\ UNCHANGED <<sched_vars, rowset_version, ncalls, txn_mutex, map_rlock>>

NextConc ==
    \E t \in Threads :
        \/ \E key \in ConcKeys :
             \/ \E l \in LoadIds : conc_call(t, "prepare", key, l, NullRowset, 0, FALSE)
             \/ \E l \in LoadIds, r \in RowsetIds \cup {NullRowset}, rec \in BOOLEAN :
                  conc_call(t, "commit", key, l, r, 0, rec)
             \/ \E v \in Versions : conc_call(t, "publish", key, 0, NullRowset, v, FALSE)
             \/ conc_call(t, "rollback", key, 0, NullRowset, 0, FALSE)
             \/ \E m \in BOOLEAN : conc_call(t, "delete", key, 0, NullRowset, 0, m)
             \/ \E m \in BOOLEAN :
                  /\ Has(txn_tablet_maps, key, ConcTablet)
                  /\ conc_call(t, "set_delete_bitmap", key, 0, NullRowset, 0, m)
        \/ \E m \in BOOLEAN :
             conc_call(t, "force_rollback", TxnKey(0, 0), 0, NullRowset, 0, m)
        \/ conc_prepare_lock(t) \/ conc_prepare_body(t)
        \/ conc_commit_lock_txn(t) \/ conc_commit_rdlock(t) \/ conc_commit_check(t)
        \/ conc_commit_save(t) \/ conc_commit_wrlock(t) \/ conc_commit_install(t)
        \/ conc_publish_lock_txn(t) \/ conc_publish_rdlock(t) \/ conc_publish_lookup(t)
        \/ conc_publish_visible(t) \/ conc_publish_io(t) \/ conc_publish_lock_txn2(t)
        \/ conc_publish_wrlock(t) \/ conc_publish_remove(t)
        \/ conc_rollback_lock(t) \/ conc_rollback_body(t)
        \/ conc_delete_lock(t) \/ conc_delete_body(t)
        \/ conc_set_lock_txn(t) \/ conc_set_wrlock(t) \/ conc_set_body(t)
        \/ conc_force_lock(t) \/ conc_force_body(t)

SpecConc == InitConc /\ [][NextConc]_vars


\* ==================================== SpecCompaction: compaction submission
\* Threads call _submit_compaction_task (the producer, and the callers of
\* submit_compaction_task); pool threads run the closures. A step is one
\* critical section of _tablet_submitted_compaction_mutex, one call on the
\* permit limiter, or one call on the tablet or the pool.

\* The permit limiter: request(n) waits while granting n would exceed the
\* ceiling, release(n) returns n units unconditionally.
permit_limiter_can_request(used, permits) ==
    used + permits <= total_permits_for_compaction_score
permit_limiter_request(used, permits) == used + permits
permit_limiter_release(used, permits) == used - permits

\* Tablet: prepare_compaction_and_calculate_permits leaves a compaction
\* object in the tablet, reset_compaction drops it
tablet_prepare_compaction(objs, tablet, compaction_type) ==
    objs \cup {<<tablet.tablet_id, compaction_type>>}
tablet_reset_compaction(objs, tablet, compaction_type) ==
    objs \ {<<tablet.tablet_id, compaction_type>>}

push_tablet_into_submitted_compaction_unchecked(cumu, base, tablet, compaction_type) ==
    [already_existed |-> FALSE,
     cumu |-> IF compaction_type = "CUMULATIVE_COMPACTION"
              THEN [cumu EXCEPT ![tablet.data_dir] = @ \cup {tablet.tablet_id}]
              ELSE cumu,
     base |-> IF compaction_type = "CUMULATIVE_COMPACTION"
              THEN base
              ELSE [base EXCEPT ![tablet.data_dir] = @ \cup {tablet.tablet_id}]]

push_tablet_into_submitted_compaction_any_class(cumu, base, tablet, compaction_type) ==
    LET existed == \/ tablet.tablet_id \in cumu[tablet.data_dir]
                   \/ tablet.tablet_id \in base[tablet.data_dir]
    IN [already_existed |-> existed,
        cumu |-> IF compaction_type = "CUMULATIVE_COMPACTION" /\ ~existed
                 THEN [cumu EXCEPT ![tablet.data_dir] = @ \cup {tablet.tablet_id}]
                 ELSE cumu,
        base |-> IF compaction_type # "CUMULATIVE_COMPACTION" /\ ~existed
                 THEN [base EXCEPT ![tablet.data_dir] = @ \cup {tablet.tablet_id}]
                 ELSE base]

\* set::insert(...).second is false when the id is already in the set
push_tablet_into_submitted_compaction(cumu, base, tablet, compaction_type) ==
    IF compaction_type = "CUMULATIVE_COMPACTION"
    THEN [already_existed |-> tablet.tablet_id \in cumu[tablet.data_dir],
          cumu |-> [cumu EXCEPT ![tablet.data_dir] = @ \cup {tablet.tablet_id}],
          base |-> base]
    ELSE [already_existed |-> tablet.tablet_id \in base[tablet.data_dir],
          cumu |-> cumu,
          base |-> [base EXCEPT ![tablet.data_dir] = @ \cup {tablet.tablet_id}]]

pop_tablet_from_submitted_compaction_cumu_only(cumu, base, flag, tablet, compaction_type) ==
    LET removed == IF /\ compaction_type = "CUMULATIVE_COMPACTION"
                      /\ tablet.tablet_id \in cumu[tablet.data_dir]
                   THEN 1 ELSE 0
    IN [cumu |-> IF compaction_type = "CUMULATIVE_COMPACTION"
                 THEN [cumu EXCEPT ![tablet.data_dir] = @ \ {tablet.tablet_id}]
                 ELSE cumu,
        base |-> base,
        flag |-> IF removed = 1 THEN 1 ELSE flag]

\* set::erase returns the number of ids removed
pop_tablet_from_submitted_compaction(cumu, base, flag, tablet, compaction_type) ==
    LET set == IF compaction_type = "CUMULATIVE_COMPACTION" THEN cumu ELSE base
        removed == IF tablet.tablet_id \in set[tablet.data_dir] THEN 1 ELSE 0
    IN [cumu |-> IF compaction_type = "CUMULATIVE_COMPACTION"
                 THEN [cumu EXCEPT ![tablet.data_dir] = @ \ {tablet.tablet_id}]
                 ELSE cumu,
        base |-> IF compaction_type = "CUMULATIVE_COMPACTION"
                 THEN base
                 ELSE [base EXCEPT ![tablet.data_dir] = @ \ {tablet.tablet_id}],
        flag |-> IF removed = 1 THEN 1 ELSE flag]

\* requested, released and resets are history: whether the submission called
\* request, and the number of release calls the closure has made
PoolTask(tablet, compaction_type, permits, requested) ==
    [pc |-> "execute", tablet |-> tablet, compaction_type |-> compaction_type,
     permits |-> permits, requested |-> requested, released |-> 0, resets |-> 0]

SubmitAt(s, pc) == submitter[s].pc = pc
SubmitGoto(s, pc) == submitter' = [submitter EXCEPT ![s].pc = pc]
SubmitReturn(s, ret) ==
    /\ submitter' = [submitter EXCEPT ![s] = IdleSubmitter]
    /\ submit_last' = Submit(submitter[s].tablet, submitter[s].compaction_type,
                             submitter[s].force, ret)
OtherVars == <<ledger_vars, conc_vars, ranking_vars, producer_vars, loop_vars>>

\* submit_compaction_task, or the producer's call of _submit_compaction_task
submit_compaction_task(s, tablet, compaction_type, force) ==
    /\ SubmitAt(s, "idle")
    /\ nsubmits < MaxSubmits
    /\ nsubmits' = nsubmits + 1
    /\ submitter' = [submitter EXCEPT ![s] =
                        [IdleSubmitter EXCEPT !.pc = "push", !.tablet = tablet,
                                              !.compaction_type = compaction_type,
                                              !.force = force]]
    /\ UNCHANGED <<OtherVars, tablet_submitted_cumu_compaction,
                   tablet_submitted_base_compaction, wakeup_producer_flag, used_permits,
                   tablet_compaction, pool_tasks, submit_last>>

submit_push(s) ==
    LET r == push_tablet_into_submitted_compaction(
                 tablet_submitted_cumu_compaction, tablet_submitted_base_compaction,
                 submitter[s].tablet, submitter[s].compaction_type)
    IN /\ SubmitAt(s, "push")
       /\ tablet_submitted_cumu_compaction' = r.cumu
       /\ tablet_submitted_base_compaction' = r.base
       /\ IF r.already_existed
          THEN SubmitReturn(s, "AlreadyExist")
          ELSE SubmitGoto(s, "prepare") /\ UNCHANGED submit_last
       /\ UNCHANGED <<OtherVars, wakeup_producer_flag, used_permits, tablet_compaction,
                      pool_tasks, nsubmits>>

\* prepare_compaction_and_calculate_permits: the status and the permits are
\* the tablet's
submit_prepare(s) ==
    /\ SubmitAt(s, "prepare")
    /\ tablet_compaction' = tablet_prepare_compaction(
                                tablet_compaction, submitter[s].tablet,
                                submitter[s].compaction_type)
    /\ \E st_ok \in BOOLEAN, permits \in 0..MaxPermits :
         submitter' = [submitter EXCEPT
             ![s].permits = permits,
             ![s].ret = IF st_ok THEN "OK" ELSE "InternalError",
             ![s].pc = IF st_ok /\ permits > 0
                       THEN (IF submitter[s].force THEN "submit_func" ELSE "request")
                       ELSE "reset"]
    /\ UNCHANGED <<OtherVars, tablet_submitted_cumu_compaction,
                   tablet_submitted_base_compaction, wakeup_producer_flag, used_permits,
                   pool_tasks, submit_last, nsubmits>>

\* _permit_limiter.request(permits), its result unused: the permits are
\* reserved when they fit; when they do not, the caller's block is bounded
\* and the call returns with nothing reserved
submit_request(s) ==
    /\ SubmitAt(s, "request")
    /\ used_permits' =
           IF permit_limiter_can_request(used_permits, submitter[s].permits)
           THEN permit_limiter_request(used_permits, submitter[s].permits)
           ELSE used_permits
    /\ submitter' = [submitter EXCEPT ![s].pc = "submit_func",
                                       ![s].requested = TRUE]
    /\ UNCHANGED <<OtherVars, tablet_submitted_cumu_compaction,
                   tablet_submitted_base_compaction, wakeup_producer_flag,
                   tablet_compaction, pool_tasks, submit_last, nsubmits>>

\* thread_pool->submit_func: the pool takes the closure or refuses it
submit_func(s) ==
    /\ SubmitAt(s, "submit_func")
    /\ \E pool_ok \in BOOLEAN :
         IF pool_ok
         THEN /\ pool_tasks' = Append(pool_tasks,
                                      PoolTask(submitter[s].tablet,
                                               submitter[s].compaction_type,
                                               submitter[s].permits,
                                               submitter[s].requested))
              /\ SubmitReturn(s, "OK")
         ELSE /\ submitter' = [submitter EXCEPT ![s].pc = "release",
                                                ![s].ret = "InternalError"]
              /\ UNCHANGED <<pool_tasks, submit_last>>
    /\ UNCHANGED <<OtherVars, tablet_submitted_cumu_compaction,
                   tablet_submitted_base_compaction, wakeup_producer_flag, used_permits,
                   tablet_compaction, nsubmits>>

submit_release(s) ==
    /\ SubmitAt(s, "release")
    /\ used_permits' = permit_limiter_release(used_permits, submitter[s].permits)
    /\ submitter' = [submitter EXCEPT ![s].pc = "reset",
                                       ![s].released = @ + 1]
    /\ UNCHANGED <<OtherVars, tablet_submitted_cumu_compaction,
                   tablet_submitted_base_compaction, wakeup_producer_flag,
                   tablet_compaction, pool_tasks, submit_last, nsubmits>>

submit_reset(s) ==
    /\ SubmitAt(s, "reset")
    /\ tablet_compaction' = tablet_reset_compaction(
                                tablet_compaction, submitter[s].tablet,
                                submitter[s].compaction_type)
    /\ submitter' = [submitter EXCEPT ![s].pc = "pop", ![s].resets = @ + 1]
    /\ UNCHANGED <<OtherVars, tablet_submitted_cumu_compaction,
                   tablet_submitted_base_compaction, wakeup_producer_flag, used_permits,
                   pool_tasks, submit_last, nsubmits>>

submit_pop(s) ==
    LET r == pop_tablet_from_submitted_compaction(
                 tablet_submitted_cumu_compaction, tablet_submitted_base_compaction,
                 wakeup_producer_flag, submitter[s].tablet, submitter[s].compaction_type)
    IN /\ SubmitAt(s, "pop")
       /\ tablet_submitted_cumu_compaction' = r.cumu
       /\ tablet_submitted_base_compaction' = r.base
       /\ wakeup_producer_flag' = r.flag
       /\ SubmitReturn(s, submitter[s].ret)
       /\ UNCHANGED <<OtherVars, used_permits, tablet_compaction, pool_tasks, nsubmits>>

\* ---- the closure, on a pool thread
TaskAt(i, pc) == i \in DOMAIN pool_tasks /\ pool_tasks[i].pc = pc

\* tablet->execute_compaction: the closure drops its result, a merge that
\* fails and one that succeeds continue alike
task_execute(i) ==
    /\ TaskAt(i, "execute")
    /\ \E merge_ok \in BOOLEAN :
         pool_tasks' = [pool_tasks EXCEPT ![i].pc = "release"]
    /\ UNCHANGED <<OtherVars, tablet_submitted_cumu_compaction,
                   tablet_submitted_base_compaction, wakeup_producer_flag, used_permits,
                   tablet_compaction, submitter, submit_last, nsubmits>>

task_release(i) ==
    /\ TaskAt(i, "release")
    /\ used_permits' = permit_limiter_release(used_permits, pool_tasks[i].permits)
    /\ pool_tasks' = [pool_tasks EXCEPT ![i].pc = "reset", ![i].released = @ + 1]
    /\ UNCHANGED <<OtherVars, tablet_submitted_cumu_compaction,
                   tablet_submitted_base_compaction, wakeup_producer_flag,
                   tablet_compaction, submitter, submit_last, nsubmits>>

task_reset(i) ==
    /\ TaskAt(i, "reset")
    /\ tablet_compaction' = tablet_reset_compaction(
                                tablet_compaction, pool_tasks[i].tablet,
                                pool_tasks[i].compaction_type)
    /\ pool_tasks' = [pool_tasks EXCEPT ![i].pc = "pop", ![i].resets = @ + 1]
    /\ UNCHANGED <<OtherVars, tablet_submitted_cumu_compaction,
                   tablet_submitted_base_compaction, wakeup_producer_flag, used_permits,
                   submitter, submit_last, nsubmits>>

task_pop(i) ==
    LET r == pop_tablet_from_submitted_compaction(
                 tablet_submitted_cumu_compaction, tablet_submitted_base_compaction,
                 wakeup_producer_flag, pool_tasks[i].tablet,
                 pool_tasks[i].compaction_type)
    IN /\ TaskAt(i, "pop")
       /\ tablet_submitted_cumu_compaction' = r.cumu
       /\ tablet_submitted_base_compaction' = r.base
       /\ wakeup_producer_flag' = r.flag
       /\ pool_tasks' = [pool_tasks EXCEPT ![i].pc = "done"]
       /\ UNCHANGED <<OtherVars, used_permits, tablet_compaction, submitter,
                      submit_last, nsubmits>>

NextCompaction ==
    \/ \E s \in Submitters :
         \/ \E tablet \in CompactionTablets, compaction_type \in CompactionTypes,
               force \in BOOLEAN :
              submit_compaction_task(s, tablet, compaction_type, force)
         \/ submit_push(s) \/ submit_prepare(s) \/ submit_request(s)
         \/ submit_func(s) \/ submit_release(s) \/ submit_reset(s) \/ submit_pop(s)
    \/ \E i \in 1..MaxSubmits :
         task_execute(i) \/ task_release(i) \/ task_reset(i) \/ task_pop(i)

SpecCompaction == Init /\ [][NextCompaction]_vars

\* a caller that is inside _submit_compaction_task runs on, and the pool runs
\* every closure it has accepted
SubmitterRuns(s) ==
    \/ submit_push(s) \/ submit_prepare(s) \/ submit_request(s)
    \/ submit_func(s) \/ submit_release(s) \/ submit_reset(s) \/ submit_pop(s)
TaskRuns(i) ==
    task_execute(i) \/ task_release(i) \/ task_reset(i) \/ task_pop(i)

\* the submissions of a behaviour checked for progress
fair_submit_compaction_task(s, tablet, compaction_type, force) ==
    /\ nsubmits < MaxFairSubmits
    /\ submit_compaction_task(s, tablet, compaction_type, force)

NextCompactionFair ==
    \/ \E s \in Submitters :
         \/ \E tablet \in CompactionTablets, compaction_type \in CompactionTypes,
               force \in BOOLEAN :
              fair_submit_compaction_task(s, tablet, compaction_type, force)
         \/ submit_push(s) \/ submit_prepare(s) \/ submit_request(s)
         \/ submit_func(s) \/ submit_release(s) \/ submit_reset(s) \/ submit_pop(s)
    \/ \E i \in 1..MaxFairSubmits :
         task_execute(i) \/ task_release(i) \/ task_reset(i) \/ task_pop(i)

SpecCompactionFair ==
    /\ Init
    /\ [][NextCompactionFair]_vars
    /\ \A s \in Submitters : WF_vars(SubmitterRuns(s))
    /\ \A i \in 1..MaxFairSubmits : WF_vars(TaskRuns(i))

\* ============================================ SpecRanking: a ranking round
\* _generate_compaction_tasks reads the submitted sets and asks the tablet
\* manager for the best tablet of every data dir. The submitted sets are any
\* the submissions can leave behind; what the data dirs and the tablet
\* manager answer is the round's environment.
InitRanking ==
    /\ LedgerInit
    /\ ConcInit
    /\ DataDirsInit
    /\ ProducerInit
    /\ LoopInit
    /\ tablet_submitted_cumu_compaction \in
           [DataDirs -> SUBSET CompactionTabletIds]
    /\ tablet_submitted_base_compaction \in
           [DataDirs -> SUBSET CompactionTabletIds]
    /\ \A d \in DataDirs :
         \A i \in tablet_submitted_cumu_compaction[d]
                      \cup tablet_submitted_base_compaction[d] :
            i % NumDataDirs = d
    /\ wakeup_producer_flag = 0
    /\ used_permits = 0
    /\ tablet_compaction = {}
    /\ submitter = [s \in Submitters |-> IdleSubmitter]
    /\ pool_tasks = <<>>
    /\ submit_last = NoSubmit
    /\ nsubmits = 0

\* data_dir->is_ssd_disk() ? compaction_task_num_per_fast_disk
\*                         : compaction_task_num_per_disk
thread_per_disk(is_ssd_disk) ==
    IF is_ssd_disk THEN compaction_task_num_per_fast_disk
    ELSE compaction_task_num_per_disk

\* the answer the claim C11 words: with one slot left a base pick needs the
\* directory to run no cumulative task
need_pick_tablet_no_cumulative(compaction_type, copied_cumu, copied_base, slots) ==
    LET count == Cardinality(copied_cumu) + Cardinality(copied_base)
    IN IF count >= slots THEN FALSE
       ELSE IF count >= slots - 1
            THEN ~(compaction_type = "BASE_COMPACTION" /\ copied_cumu # {})
            ELSE TRUE

need_pick_tablet_when_full(compaction_type, copied_cumu, copied_base, slots) ==
    LET count == Cardinality(copied_cumu) + Cardinality(copied_base)
    IN IF count >= slots - 1
       THEN ~(compaction_type = "BASE_COMPACTION" /\ copied_cumu = {})
       ELSE TRUE

need_pick_tablet_no_reserve(compaction_type, copied_cumu, copied_base, slots) ==
    Cardinality(copied_cumu) + Cardinality(copied_base) < slots

need_pick_tablet(compaction_type, copied_cumu, copied_base, slots) ==
    LET count == Cardinality(copied_cumu) + Cardinality(copied_base)
    IN IF count >= slots THEN FALSE
       ELSE IF count >= slots - 1
            THEN ~(compaction_type = "BASE_COMPACTION" /\ copied_cumu = {})
            ELSE TRUE

\* TabletManager::find_best_tablet_to_compaction: a tablet of the data dir
\* that is not among the excluded ids, or nullptr (0)
find_best_tablet_to_compaction(d, excluded) ==
    {0} \cup {i \in CompactionTabletIds \ excluded : i % NumDataDirs = d}

\* what a data dir and the tablet manager answer in one round: best is the
\* tablet find_best_tablet_to_compaction returns, 0 for nullptr
DirAnswers(d, excluded) ==
    {[is_ssd_disk |-> ssd, reach_capacity_limit |-> full, best |-> best,
      disable_auto_compaction |-> off, disk_max_score |-> score] :
        ssd \in BOOLEAN, full \in BOOLEAN, off \in BOOLEAN, score \in 0..MaxScore,
        best \in find_best_tablet_to_compaction(d, excluded)}

\* the body of the loop for one data dir: the tablet picked (0 for none) and
\* the score that goes into max_compaction_score
generate_for_dir_keep_disabled(compaction_type, check_score, copied_cumu, copied_base, answer) ==
    LET need == need_pick_tablet(compaction_type, copied_cumu, copied_base,
                                 thread_per_disk(answer.is_ssd_disk))
        skipped == ~need /\ ~check_score
        found == ~skipped /\ ~answer.reach_capacity_limit /\ answer.best # 0
    IN [need_pick_tablet |-> need,
        tablet |-> IF found /\ need THEN answer.best ELSE 0,
        score |-> IF found THEN answer.disk_max_score ELSE 0]

generate_for_dir(compaction_type, check_score, copied_cumu, copied_base, answer) ==
    LET need == need_pick_tablet(compaction_type, copied_cumu, copied_base,
                                 thread_per_disk(answer.is_ssd_disk))
        skipped == ~need /\ ~check_score
        found == ~skipped /\ ~answer.reach_capacity_limit /\ answer.best # 0
                     /\ ~answer.disable_auto_compaction
    IN [need_pick_tablet |-> need,
        tablet |-> IF found /\ need THEN answer.best ELSE 0,
        score |-> IF found THEN answer.disk_max_score ELSE 0]

MaxOf(S) == CHOOSE x \in S : \A y \in S : y <= x

generate_compaction_tasks_round(compaction_type, check_score) ==
    \E answers \in [DataDirs -> UNION {DirAnswers(d, {}) : d \in DataDirs}] :
        LET copied_cumu_map == tablet_submitted_cumu_compaction
            copied_base_map == tablet_submitted_base_compaction
            excluded(d) == IF compaction_type = "CUMULATIVE_COMPACTION"
                           THEN copied_cumu_map[d] ELSE copied_base_map[d]
            r == [d \in DataDirs |->
                     generate_for_dir(compaction_type, check_score, copied_cumu_map[d],
                                      copied_base_map[d], answers[d])]
            score == MaxOf({0} \cup {r[d].score : d \in DataDirs})
        IN /\ \A d \in DataDirs : answers[d] \in DirAnswers(d, excluded(d))
           /\ \A d \in DataDirs : answers[d].is_ssd_disk = ranking_last.is_ssd_disk[d]
           /\ ranking_last' =
                  [compaction_type |-> compaction_type, check_score |-> check_score,
                   thread_per_disk |->
                       [d \in DataDirs |-> thread_per_disk(answers[d].is_ssd_disk)],
                   need_pick_tablet |-> [d \in DataDirs |-> r[d].need_pick_tablet],
                   tablets |-> {r[d].tablet : d \in DataDirs} \ {0},
                   disable_auto_compaction |->
                       [d \in DataDirs |-> answers[d].disable_auto_compaction],
                   is_ssd_disk |-> ranking_last.is_ssd_disk]
           /\ max_compaction_score' =
                  IF score > 0
                  THEN IF compaction_type = "BASE_COMPACTION"
                       THEN [max_compaction_score EXCEPT !.base = score]
                       ELSE [max_compaction_score EXCEPT !.cumulative = score]
                  ELSE max_compaction_score
           /\ UNCHANGED <<ledger_vars, conc_vars, loop_vars, compaction_vars>>

\* a round on its own, as the ranking is checked
generate_compaction_tasks(compaction_type, check_score) ==
    /\ generate_compaction_tasks_round(compaction_type, check_score)
    /\ UNCHANGED producer_vars

NextRanking ==
    \E compaction_type \in CompactionTypes, check_score \in BOOLEAN :
        generate_compaction_tasks(compaction_type, check_score)

SpecRanking == InitRanking /\ [][NextRanking]_vars

\* ================================== SpecProducer: the compaction producer
\* _compaction_tasks_producer_callback: one thread that ranks, submits what
\* the ranking returned through _submit_compaction_task, and sleeps when the
\* ranking returned nothing; the pool threads run the closures.
ProducerCaller == 1
MaxProducerTasks == MaxRounds * NumDataDirs

\* closures that have run to their end: each popped its tablet
DoneCount == Len(SelectSeq(pool_tasks, LAMBDA x : x.pc = "done"))

\* the ratio the configuration holds, the same in every iteration
InitProducer ==
    /\ LedgerInit
    /\ ConcInit
    /\ CompactionInit
    /\ DataDirsInit
    /\ LoopInit
    /\ rounds = <<>>
    /\ \E n \in 0..MaxCumulativeRounds :
         producer = [IdleProducer EXCEPT
             !.cumulative_compaction_rounds_for_each_base_compaction_round = n]

\* if (round < cumulative_compaction_rounds_for_each_base_compaction_round)
\*     { CUMULATIVE_COMPACTION; round++ } else { BASE_COMPACTION; round = 0 }
producer_next_round_no_reset(round, ratio) ==
    IF round < ratio
    THEN [compaction_type |-> "CUMULATIVE_COMPACTION", round |-> round + 1]
    ELSE [compaction_type |-> "BASE_COMPACTION", round |-> round]

producer_next_round(round, ratio) ==
    IF round < ratio
    THEN [compaction_type |-> "CUMULATIVE_COMPACTION", round |-> round + 1]
    ELSE [compaction_type |-> "BASE_COMPACTION", round |-> 0]

\* condition_variable::wait_for(lock, 2000ms, pred): returns when pred holds
\* or the time is up
cv_wait_returns(flag, timed_out) == flag = 1

cv_wait_for_returns(flag, timed_out) == flag = 1 \/ timed_out

ProducerAt(pc) == producer.pc = pc

\* config::disable_auto_compaction is set: no round, interval = 5000
producer_disabled ==
    /\ ProducerAt("loop")
    /\ producer' = [producer EXCEPT !.pc = "latch"]
    /\ UNCHANGED <<ledger_vars, conc_vars, loop_vars, compaction_vars, ranking_vars, rounds>>

\* the class of the round is chosen and _generate_compaction_tasks runs;
\* check_score depends on the clock
producer_round(check_score) ==
    LET nr == producer_next_round(
                  producer.round,
                  producer.cumulative_compaction_rounds_for_each_base_compaction_round)
    IN /\ ProducerAt("loop")
       /\ Len(rounds) < MaxRounds
       /\ generate_compaction_tasks_round(nr.compaction_type, check_score)
       /\ producer' = [producer EXCEPT
              !.pc = IF ranking_last'.tablets = {} THEN "sleep" ELSE "submit",
              !.round = nr.round,
              !.compaction_type = nr.compaction_type,
              !.tablets = ranking_last'.tablets,
              !.done_at_scan = DoneCount,
              !.woken_by = "none"]
       /\ rounds' = Append(rounds, [compaction_type |-> nr.compaction_type,
                                    empty |-> ranking_last'.tablets = {},
                                    submitted |-> {}])

\* tablets_compaction.size() == 0: under _compaction_producer_sleep_mutex the
\* flag is cleared and the wait begins
producer_sleep ==
    /\ ProducerAt("sleep")
    /\ wakeup_producer_flag' = 0
    /\ producer' = [producer EXCEPT !.pc = "wait"]
    /\ UNCHANGED <<ledger_vars, conc_vars, loop_vars, ranking_vars, rounds,
                   tablet_submitted_cumu_compaction, tablet_submitted_base_compaction,
                   used_permits, tablet_compaction, submitter, pool_tasks, submit_last,
                   nsubmits>>

producer_wait_for ==
    /\ ProducerAt("wait")
    /\ \E timed_out \in BOOLEAN :
         cv_wait_for_returns(wakeup_producer_flag, timed_out)
    /\ producer' = [producer EXCEPT
           !.pc = "latch",
           !.woken_by = IF wakeup_producer_flag = 1 THEN "notify" ELSE "timeout"]
    /\ UNCHANGED <<ledger_vars, conc_vars, loop_vars, compaction_vars, ranking_vars, rounds>>

\* for (tablet : tablets_compaction) _submit_compaction_task(tablet, type, false)
producer_submit(tablet) ==
    /\ ProducerAt("submit")
    /\ tablet.tablet_id \in producer.tablets
    /\ SubmitAt(ProducerCaller, "idle")
    /\ submitter' = [submitter EXCEPT ![ProducerCaller] =
                        [IdleSubmitter EXCEPT !.pc = "push", !.tablet = tablet,
                                              !.compaction_type = producer.compaction_type,
                                              !.force = FALSE]]
    /\ nsubmits' = nsubmits + 1
    /\ producer' = [producer EXCEPT !.tablets = @ \ {tablet.tablet_id}]
    /\ rounds' = [rounds EXCEPT ![Len(rounds)].submitted =
                                     @ \cup {producer.compaction_type}]
    /\ UNCHANGED <<ledger_vars, conc_vars, loop_vars, ranking_vars,
                   tablet_submitted_cumu_compaction, tablet_submitted_base_compaction,
                   wakeup_producer_flag, used_permits, tablet_compaction, pool_tasks,
                   submit_last>>

\* the last _submit_compaction_task call of the round has returned
producer_submitted ==
    /\ ProducerAt("submit")
    /\ producer.tablets = {}
    /\ SubmitAt(ProducerCaller, "idle")
    /\ producer' = [producer EXCEPT !.pc = "latch"]
    /\ UNCHANGED <<ledger_vars, conc_vars, loop_vars, compaction_vars, ranking_vars, rounds>>

\* while (!_stop_background_threads_latch.wait_for(interval))
\* CountDownLatch::wait_for: true when the count is 0, false when the time is
\* up with the count still positive
latch_wait_for(count) == count = 0

\* the shutdown counts the latch down to 0
stop_background_threads ==
    /\ stop_background_threads_latch = 1
    /\ stop_background_threads_latch' = 0
    /\ UNCHANGED <<ledger_vars, conc_vars, compaction_vars, ranking_vars, producer_vars,
                   garbage_sweeper, cooldown>>

producer_latch ==
    /\ ProducerAt("latch")
    /\ producer' = [producer EXCEPT
           !.pc = IF latch_wait_for(stop_background_threads_latch)
                  THEN "stopped" ELSE "loop"]
    /\ UNCHANGED <<ledger_vars, conc_vars, loop_vars, compaction_vars, ranking_vars, rounds>>

NextProducer ==
    \/ producer_disabled
    \/ \E check_score \in BOOLEAN : producer_round(check_score)
    \/ producer_sleep
    \/ producer_wait_for
    \/ \E tablet \in CompactionTablets : producer_submit(tablet)
    \/ producer_submitted
    \/ producer_latch
    \/ stop_background_threads
    \/ submit_push(ProducerCaller) \/ submit_prepare(ProducerCaller)
    \/ submit_request(ProducerCaller) \/ submit_func(ProducerCaller)
    \/ submit_release(ProducerCaller) \/ submit_reset(ProducerCaller)
    \/ submit_pop(ProducerCaller)
    \/ \E i \in 1..MaxProducerTasks :
         task_execute(i) \/ task_release(i) \/ task_reset(i) \/ task_pop(i)

SpecProducer == InitProducer /\ [][NextProducer]_vars

\* the rounds of a behaviour checked for progress
fair_producer_round(check_score) ==
    /\ Len(rounds) < MaxFairRounds
    /\ producer_round(check_score)

ProducerRunsFair ==
    \/ producer_disabled
    \/ \E check_score \in BOOLEAN : fair_producer_round(check_score)
    \/ producer_sleep
    \/ producer_wait_for
    \/ \E tablet \in CompactionTablets : producer_submit(tablet)
    \/ producer_submitted
    \/ producer_latch

NextProducerFair ==
    \/ producer_disabled
    \/ \E check_score \in BOOLEAN : fair_producer_round(check_score)
    \/ producer_sleep
    \/ producer_wait_for
    \/ \E tablet \in CompactionTablets : producer_submit(tablet)
    \/ producer_submitted
    \/ producer_latch
    \/ stop_background_threads
    \/ submit_push(ProducerCaller) \/ submit_prepare(ProducerCaller)
    \/ submit_request(ProducerCaller) \/ submit_func(ProducerCaller)
    \/ submit_release(ProducerCaller) \/ submit_reset(ProducerCaller)
    \/ submit_pop(ProducerCaller)
    \/ \E i \in 1..MaxProducerTasks :
         task_execute(i) \/ task_release(i) \/ task_reset(i) \/ task_pop(i)

\* the producer thread and its call run on, the pool runs every closure it
\* accepted, and a timed wait ends when its time is up
SpecProducerFair ==
    /\ InitProducer
    /\ [][NextProducerFair]_vars
    /\ WF_vars(ProducerRunsFair)
    /\ WF_vars(SubmitterRuns(ProducerCaller))
    /\ \A i \in 1..MaxProducerTasks : WF_vars(TaskRuns(i))

\* ============================== SpecLoops: the auxiliary periodic loops
\* _garbage_sweeper_thread_callback and _cooldown_tasks_producer_callback,
\* each on its own thread, with the stop latch they share.
UsageLevels == {0, 60, 75, 88, 100}
CooldownTablets == 1..MaxCooldownTablets

\* if (!(max_interval >= min_interval && min_interval > 0))
\*     { min_interval = 1; max_interval = max(max_interval, min_interval); }
validate_garbage_sweep_interval(max_interval, min_interval) ==
    IF max_interval >= min_interval /\ min_interval > 0
    THEN [max_interval |-> max_interval, min_interval |-> min_interval]
    ELSE [max_interval |-> IF max_interval >= 1 THEN max_interval ELSE 1,
          min_interval |-> 1]

\* ratio = (1.1 * (pi / 2 - atan(usage * 100 / 5 - 14)) - 0.28) / pi, not
\* below 0, in thousandths, at the usage levels (in percent) of UsageLevels
garbage_sweep_ratio(usage) ==
    CASE usage = 0 -> 985
      [] usage = 60 -> 848
      [] usage = 75 -> 185
      [] usage = 88 -> 5
      [] OTHER -> 0

\* uint32_t curr_interval = max_interval * ratio, then max with min_interval
\* and min with max_interval
garbage_sweep_interval(max_interval, min_interval, usage) ==
    LET computed == (max_interval * garbage_sweep_ratio(usage)) \div 1000
        raised == IF computed > min_interval THEN computed ELSE min_interval
    IN IF raised < max_interval THEN raised ELSE max_interval

InitLoops ==
    /\ LedgerInit
    /\ ConcInit
    /\ CompactionInit
    /\ RankingInit
    /\ ProducerInit
    /\ stop_background_threads_latch = 1
    /\ cooldown = IdleCooldown
    /\ \E max_interval \in 0..MaxSweepInterval, min_interval \in 0..MaxSweepInterval :
         LET v == validate_garbage_sweep_interval(max_interval, min_interval)
         IN garbage_sweeper = [IdleSweeper EXCEPT
                !.max_interval = v.max_interval, !.min_interval = v.min_interval,
                !.curr_interval = v.min_interval]

LoopUnchanged == UNCHANGED <<ledger_vars, conc_vars, compaction_vars, ranking_vars, producer_vars>>

\* the shutdown, while the auxiliary loops run
stop_background_loops ==
    /\ stop_background_threads_latch = 1
    /\ stop_background_threads_latch' = 0
    /\ UNCHANGED <<garbage_sweeper, cooldown>>
    /\ LoopUnchanged

\* one iteration of the sweeper: the latch wait of curr_interval seconds timed
\* out, the interval is computed into the curr_interval the loop body
\* declares, and start_trash_sweep reports the usage; the curr_interval the
\* loop condition reads is the one declared before the loop
garbage_sweeper_sweep(usage) ==
    /\ garbage_sweeper.pc = "wait"
    /\ ~latch_wait_for(stop_background_threads_latch)
    /\ garbage_sweeper.sweeps < MaxSweeps
    /\ garbage_sweeper' = [garbage_sweeper EXCEPT
           !.swept_interval = garbage_sweep_interval(garbage_sweeper.max_interval,
                                                     garbage_sweeper.min_interval,
                                                     garbage_sweeper.usage),
           !.usage = usage,
           !.sweeps = @ + 1]
    /\ UNCHANGED <<stop_background_threads_latch, cooldown>>
    /\ LoopUnchanged

garbage_sweeper_exit ==
    /\ garbage_sweeper.pc = "wait"
    /\ latch_wait_for(stop_background_threads_latch)
    /\ garbage_sweeper' = [garbage_sweeper EXCEPT !.pc = "stopped"]
    /\ UNCHANGED <<stop_background_threads_latch, cooldown>>
    /\ LoopUnchanged

\* get_cooldown_tablets with skip_tablet: tablets that are not in
\* _running_cooldown_tablets, are running and did not fail lately
cooldown_get_tablets(tablets) ==
    /\ cooldown.pc = "round"
    /\ cooldown.rounds < MaxCooldownRounds
    /\ tablets \cap cooldown.running_cooldown_tablets = {}
    /\ cooldown' = [cooldown EXCEPT !.pc = "offer", !.tablets = tablets,
                                    !.rounds = @ + 1]
    /\ UNCHANGED <<stop_background_threads_latch, garbage_sweeper>>
    /\ LoopUnchanged

\* the loop body for one tablet: insert into _running_cooldown_tablets and
\* offer the task; a refused task is logged
cooldown_offer(tablet, submited) ==
    /\ cooldown.pc = "offer"
    /\ tablet \in cooldown.tablets
    /\ cooldown' = [cooldown EXCEPT
           !.tablets = @ \ {tablet},
           !.running_cooldown_tablets = @ \cup {tablet},
           !.queue = IF submited THEN @ \cup {tablet} ELSE @]
    /\ UNCHANGED <<stop_background_threads_latch, garbage_sweeper>>
    /\ LoopUnchanged

\* while (!_stop_background_threads_latch.wait_for(interval))
cooldown_latch ==
    /\ cooldown.pc = "offer"
    /\ cooldown.tablets = {}
    /\ cooldown' = [cooldown EXCEPT
           !.pc = IF latch_wait_for(stop_background_threads_latch)
                  THEN "stopped" ELSE "round"]
    /\ UNCHANGED <<stop_background_threads_latch, garbage_sweeper>>
    /\ LoopUnchanged

\* task.work_function on a pool thread: tablet->cooldown(), then the erase
cooldown_task(tablet) ==
    /\ tablet \in cooldown.queue
    /\ cooldown' = [cooldown EXCEPT
           !.queue = @ \ {tablet},
           !.running_cooldown_tablets = @ \ {tablet}]
    /\ UNCHANGED <<stop_background_threads_latch, garbage_sweeper>>
    /\ LoopUnchanged

NextLoops ==
    \/ stop_background_loops
    \/ \E usage \in UsageLevels : garbage_sweeper_sweep(usage)
    \/ garbage_sweeper_exit
    \/ \E tablets \in SUBSET CooldownTablets : cooldown_get_tablets(tablets)
    \/ \E tablet \in CooldownTablets, submited \in BOOLEAN : cooldown_offer(tablet, submited)
    \/ cooldown_latch
    \/ \E tablet \in CooldownTablets : cooldown_task(tablet)

SpecLoops == InitLoops /\ [][NextLoops]_vars

\* ====================================================== claims under Spec
Committed(maps, key, tablet_info) ==
    Has(maps, key, tablet_info) /\ Entry(maps, key, tablet_info).rowset # NullRowset
EntryState(maps, key, tablet_info) ==
    IF ~Has(maps, key, tablet_info) THEN "ABSENT"
    ELSE IF Entry(maps, key, tablet_info).rowset = NullRowset THEN "PREPARED"
    ELSE "COMMITTED"

\* the step is a ledger call; last' describes it
CallStep(op) == ncalls' = ncalls + 1 /\ last'.op = op

\* C1: commit on a committed entry with the entry's load_id: with the entry's
\* rowset id it returns OK and changes nothing (ledger, meta store, rowset
\* versions, no save); with another rowset id it returns
\* PUSH_TRANSACTION_ALREADY_EXIST and the ledger, with the stored rowset, is
\* as before.
C1_CommitDuplicate ==
    [][(/\ CallStep("commit")
        /\ last'.rowset # NullRowset
        /\ Committed(txn_tablet_maps, last'.key, last'.tablet_info)
        /\ Entry(txn_tablet_maps, last'.key, last'.tablet_info).load_id = last'.load_id)
       => /\ UNCHANGED <<txn_tablet_maps, txn_partition_maps, meta_store,
                         rowset_version>>
          /\ last'.io = <<>>
          /\ last'.ret =
                 IF Entry(txn_tablet_maps, last'.key, last'.tablet_info).rowset
                        = last'.rowset
                 THEN "OK"
                 ELSE "PUSH_TRANSACTION_ALREADY_EXIST"]_vars

\* a conflicting commit was refused and the entry holds the other rowset
C1_Witness ==
    /\ last.op = "commit"
    /\ last.ret = "PUSH_TRANSACTION_ALREADY_EXIST"
    /\ Committed(txn_tablet_maps, last.key, last.tablet_info)
    /\ Entry(txn_tablet_maps, last.key, last.tablet_info).rowset # last.rowset
    /\ Entry(txn_tablet_maps, last.key, last.tablet_info).load_id = last.load_id

\* C2: a prepare that repeats, with the same load_id, the prepare that just
\* returned OK returns OK too and leaves the ledger as the first call left
\* it, with the entry in it.
C2_PrepareTwice ==
    [][(/\ CallStep("prepare")
        /\ last.op = "prepare"
        /\ last.ret = "OK"
        /\ last'.key = last.key
        /\ last'.tablet_info = last.tablet_info
        /\ last'.load_id = last.load_id)
       => /\ last'.ret = "OK"
          /\ UNCHANGED <<txn_tablet_maps, txn_partition_maps>>
          /\ Has(txn_tablet_maps', last'.key, last'.tablet_info)]_vars

\* C3: rollback on an entry whose rowset is not null returns
\* TRANSACTION_ALREADY_COMMITTED and leaves the transaction map (the entry and
\* its key) and the partition index unchanged.
C3_RollbackCommitted ==
    [][(/\ CallStep("rollback")
        /\ Committed(txn_tablet_maps, last'.key, last'.tablet_info))
       => /\ last'.ret = "TRANSACTION_ALREADY_COMMITTED"
          /\ UNCHANGED <<txn_tablet_maps, txn_partition_maps>>]_vars

C3_Witness ==
    /\ last.op = "rollback"
    /\ last.ret = "TRANSACTION_ALREADY_COMMITTED"
    /\ Committed(txn_tablet_maps, last.key, last.tablet_info)
    /\ last.key[2] \in DOMAIN txn_partition_maps[ShardOf(last.key[2])]

C5_DeletePublished ==
    [][(/\ CallStep("delete")
        /\ Committed(txn_tablet_maps, last'.key, last'.tablet_info)
        /\ rowset_version[Entry(txn_tablet_maps, last'.key,
                                last'.tablet_info).rowset] > 0)
       => /\ last'.ret = "TRANSACTION_ALREADY_COMMITTED"
          /\ UNCHANGED <<txn_tablet_maps, txn_partition_maps, meta_store>>
          /\ last'.io = <<>>]_vars

\* C6: an entry that holds a persisted, unpublished rowset stops holding it
\* only by a publish or a delete of that entry that returns OK
\* (force_rollback_tablet_related_txns left aside).
C6_RowsetOnlyLeavesByPublishOrDelete ==
    [][(ncalls' = ncalls + 1 /\ last'.op # "force_rollback")
       => \A key \in TxnKeys, tablet_info \in TabletInfos :
            (/\ Committed(txn_tablet_maps, key, tablet_info)
             /\ <<tablet_info.tablet_uid,
                  Entry(txn_tablet_maps, key, tablet_info).rowset>> \in meta_store
             /\ rowset_version[Entry(txn_tablet_maps, key, tablet_info).rowset] <= 0
             /\ ~(/\ Has(txn_tablet_maps', key, tablet_info)
                  /\ Entry(txn_tablet_maps', key, tablet_info).rowset
                         = Entry(txn_tablet_maps, key, tablet_info).rowset))
            => /\ last'.op \in {"publish", "delete"}
               /\ last'.ret = "OK"
               /\ last'.key = key
               /\ last'.tablet_info = tablet_info]_vars

\* C7: an entry changes state only along ABSENT -> PREPARED by prepare,
\* PREPARED -> COMMITTED by commit, COMMITTED -> ABSENT by publish or delete,
\* PREPARED -> ABSENT by rollback (force_rollback_tablet_related_txns left
\* aside).
C7_Lifecycle ==
    [][(ncalls' = ncalls + 1 /\ last'.op # "force_rollback")
       => \A key \in TxnKeys, tablet_info \in TabletInfos :
            LET from == EntryState(txn_tablet_maps, key, tablet_info)
                to == EntryState(txn_tablet_maps', key, tablet_info)
            IN from # to
               => \/ from = "ABSENT" /\ to = "PREPARED" /\ last'.op = "prepare"
                  \/ from = "PREPARED" /\ to = "COMMITTED" /\ last'.op = "commit"
                  \/ from = "COMMITTED" /\ to = "ABSENT"
                         /\ last'.op \in {"publish", "delete"}
                  \/ from = "PREPARED" /\ to = "ABSENT" /\ last'.op = "rollback"]_vars

\* the publish call of this step finds no entry, or an entry without rowset
PublishFindsNoRowset ==
    /\ CallStep("publish")
    /\ ~Committed(txn_tablet_maps, last'.key, last'.tablet_info)

NoPublishEffect ==
    /\ UNCHANGED <<txn_tablet_maps, txn_partition_maps, rowset_version, meta_store>>
    /\ last'.io = <<>>

PublishErrors == {"UPDATE_DELETE_BITMAP_FAILED", "FLUSH_FAILED",
                  "ROWSET_ADD_TO_BINLOG_FAILED", "ROWSET_SAVE_FAILED"}

\* C15: a publish that fails in the delete-bitmap update, the flush, the
\* binlog append or the meta save returns that error and leaves the ledger as
\* it was: the entry still holds its rowset and the transaction is still in
\* the partition index.
C15_PublishFailureKeepsEntry ==
    [][(/\ CallStep("publish")
        /\ Committed(txn_tablet_maps, last'.key, last'.tablet_info)
        /\ last'.flag
        /\ last'.ret # "OK")
       => /\ last'.ret \in PublishErrors
          /\ UNCHANGED <<txn_tablet_maps, txn_partition_maps>>
          /\ Committed(txn_tablet_maps', last'.key, last'.tablet_info)
          /\ Entry(txn_tablet_maps', last'.key, last'.tablet_info).rowset
                 = last'.rowset
          /\ last'.key[2] \in DOMAIN txn_partition_maps'[ShardOf(last'.key[2])]
          /\ last'.key[1] \in txn_partition_maps'[ShardOf(last'.key[2])][last'.key[2]]
          /\ "erase" \notin {last'.io[i] : i \in DOMAIN last'.io}]_vars

\* a publish failed in the meta save and its entry is still committed
C15_Witness ==
    /\ last.op = "publish"
    /\ last.ret = "ROWSET_SAVE_FAILED"
    /\ Committed(txn_tablet_maps, last.key, last.tablet_info)
    /\ Entry(txn_tablet_maps, last.key, last.tablet_info).rowset = last.rowset

\* C16: a publish that fails in the binlog append leaves the rowset
\* unpublished: its version is not a real version (<= 0) on return.
C16_BinlogFailureUnpublished ==
    [][(CallStep("publish") /\ last'.ret = "ROWSET_ADD_TO_BINLOG_FAILED")
       => rowset_version'[last'.rowset] <= 0]_vars


\* C17: a publish that repeats, with the same partition, transaction, tablet
\* and version, the publish that has just made the rowset visible and returned
\* OK, returns OK too.
C17_PublishIdempotent ==
    [][(/\ CallStep("publish")
        /\ last.op = "publish"
        /\ last.ret = "OK"
        /\ last.rowset # NullRowset
        /\ rowset_version[last.rowset] = last.version
        /\ last'.key = last.key
        /\ last'.tablet_info = last.tablet_info
        /\ last'.version = last.version)
       => last'.ret = "OK"]_vars


\* the transactions the partition index holds for a partition, over all shards
OpenTxns(pms, partition_id) ==
    {t \in TxnIds : \E s \in Shards :
         t \in DOMAIN pms[s] /\ partition_id \in pms[s][t]}

\* C18: prepare returns TOO_MANY_TRANSACTIONS, with the ledger unchanged,
\* exactly when the open transactions of its partition exceed
\* max_runnings_transactions_per_txn_map, and after every ledger call no
\* partition has more open transactions than that.
C18_TooManyTransactions ==
    [][/\ CallStep("prepare")
          => /\ last'.ret = "TOO_MANY_TRANSACTIONS"
                 <=> Cardinality(OpenTxns(txn_partition_maps, last'.key[1]))
                         > max_runnings_transactions_per_txn_map
             /\ last'.ret = "TOO_MANY_TRANSACTIONS"
                 => UNCHANGED <<txn_tablet_maps, txn_partition_maps>>
       /\ ncalls' = ncalls + 1
          => \A partition_id \in PartitionIds :
               Cardinality(OpenTxns(txn_partition_maps', partition_id))
                   <= max_runnings_transactions_per_txn_map]_vars


\* C19: prepare on a key and tablet that already have an entry leaves the
\* entry's load_id and rowset as they were, whatever load_id it carries.
C19_PrepareKeepsEntry ==
    [][(CallStep("prepare") /\ Has(txn_tablet_maps, last'.key, last'.tablet_info))
       => /\ Has(txn_tablet_maps', last'.key, last'.tablet_info)
          /\ Entry(txn_tablet_maps', last'.key, last'.tablet_info).load_id
                 = Entry(txn_tablet_maps, last'.key, last'.tablet_info).load_id
          /\ Entry(txn_tablet_maps', last'.key, last'.tablet_info).rowset
                 = Entry(txn_tablet_maps, last'.key, last'.tablet_info).rowset]_vars


\* C20: a non-recovery commit that fails in the meta save returns
\* ROWSET_SAVE_FAILED and leaves the ledger as it was; a non-recovery commit
\* changes the ledger only after its save succeeded, so the rowset it installs
\* is in the meta store.
C20_CommitSavesBeforeInstall ==
    [][(CallStep("commit") /\ ~last'.flag)
       => /\ last'.ret = "ROWSET_SAVE_FAILED"
              => /\ UNCHANGED <<txn_tablet_maps, txn_partition_maps, meta_store>>
                 /\ last'.io = <<"save">>
          /\ (txn_tablet_maps' # txn_tablet_maps
                  \/ txn_partition_maps' # txn_partition_maps)
              => /\ last'.ret = "OK"
                 /\ last'.io = <<"save">>
                 /\ <<last'.tablet_info.tablet_uid, last'.rowset>> \in meta_store'
                 /\ Entry(txn_tablet_maps', last'.key, last'.tablet_info).rowset
                        = last'.rowset]_vars

\* a non-recovery commit failed in the meta save and its entry is still
\* without rowset
C20_Witness ==
    /\ last.op = "commit"
    /\ ~last.flag
    /\ last.ret = "ROWSET_SAVE_FAILED"
    /\ Has(txn_tablet_maps, last.key, last.tablet_info)
    /\ ~Committed(txn_tablet_maps, last.key, last.tablet_info)
    /\ <<last.tablet_info.tablet_uid, last.rowset>> \notin meta_store


\* C22: after force_rollback_tablet_related_txns(tablet) no shard holds an
\* entry of that tablet under any key, the entries of every other tablet are
\* as before, nothing is added, and a key that lost its last entry is in
\* neither the transaction map nor the partition index.
C22_ForceRollbackRemovesTablet ==
    [][CallStep("force_rollback")
       => \A s \in Shards :
            LET tm == txn_tablet_maps[s]
                tm2 == txn_tablet_maps'[s]
                pm2 == txn_partition_maps'[s]
                tab == last'.tablet_info
            IN /\ \A k \in DOMAIN tm2 :
                    /\ tab \notin DOMAIN tm2[k]
                    /\ k \in DOMAIN tm
                    /\ DOMAIN tm2[k] \subseteq DOMAIN tm[k]
               /\ \A k \in DOMAIN tm : \A u \in (DOMAIN tm[k]) \ {tab} :
                    /\ k \in DOMAIN tm2
                    /\ u \in DOMAIN tm2[k]
                    /\ tm2[k][u] = tm[k][u]
               /\ \A k \in DOMAIN tm :
                    DOMAIN tm[k] = {tab}
                    => /\ k \notin DOMAIN tm2
                       /\ ~(k[2] \in DOMAIN pm2 /\ k[1] \in pm2[k[2]])]_vars

\* a force rollback removed a committed entry of its tablet and the entry of
\* another tablet is still in the ledger
C22_Witness ==
    /\ last.op = "force_rollback"
    /\ last.io = <<"remove">>
    /\ \E s \in Shards : \E k \in DOMAIN txn_tablet_maps[s] :
          (DOMAIN txn_tablet_maps[s][k]) \ {last.tablet_info} # {}

IdentityOps == {"commit", "publish", "rollback", "delete", "has_txn", "force_rollback"}

\* the tablet identities stored under key that share tablet_id with
\* tablet_info and differ from it in tablet_uid
OtherUids(maps, key, tablet_info) ==
    IF key \in DOMAIN maps[ShardOf(key[2])]
    THEN {u \in DOMAIN maps[ShardOf(key[2])][key] :
            /\ u.tablet_id = tablet_info.tablet_id
            /\ u.tablet_uid # tablet_info.tablet_uid}
    ELSE {}

\* C23: commit, publish, rollback, delete, has_txn and force_rollback called
\* with one tablet_uid leave every entry stored under the same tablet_id and
\* another tablet_uid in place and unchanged, and do not answer from it:
\* has_txn is true only for an entry under the full identity, and with no
\* entry under the full identity rollback returns OK and publish (tablet
\* found) returns TRANSACTION_NOT_EXIST.
C23_FullIdentityMatch ==
    [][(ncalls' = ncalls + 1 /\ last'.op \in IdentityOps)
       => LET tab == last'.tablet_info
              key == last'.key
          IN /\ \A s \in Shards : \A k \in DOMAIN txn_tablet_maps[s] :
                   \A u \in OtherUids(txn_tablet_maps, k, tab) :
                      /\ Has(txn_tablet_maps', k, u)
                      /\ Entry(txn_tablet_maps', k, u) = Entry(txn_tablet_maps, k, u)
             /\ last'.op = "has_txn"
                => (last'.flag <=> /\ key \in DOMAIN txn_tablet_maps[ShardOf(key[2])]
                                   /\ tab \in DOMAIN txn_tablet_maps[ShardOf(key[2])][key])
             /\ (last'.op = "rollback" /\ ~Has(txn_tablet_maps, key, tab))
                => last'.ret = "OK"
             /\ (last'.op = "publish" /\ last'.flag /\ ~Has(txn_tablet_maps, key, tab))
                => last'.ret = "TRANSACTION_NOT_EXIST"]_vars

\* a rollback under one tablet_uid returned OK while the entry under the
\* other tablet_uid of the same key is committed and still there
C23_Witness ==
    /\ last.op = "rollback"
    /\ last.ret = "OK"
    /\ \E u \in OtherUids(txn_tablet_maps, last.key, last.tablet_info) :
          Committed(txn_tablet_maps, last.key, u)

\* C24: rollback of an entry that is prepared and not committed returns OK
\* and removes the entry, so has_txn is false for it afterwards; when it was
\* the key's last entry the key leaves the transaction map and the partition
\* leaves the partition index of the transaction, and otherwise the key and
\* its other entries stay.
C24_RollbackPrepared ==
    [][(/\ CallStep("rollback")
        /\ Has(txn_tablet_maps, last'.key, last'.tablet_info)
        /\ ~Committed(txn_tablet_maps, last'.key, last'.tablet_info))
       => LET key == last'.key
              s == ShardOf(key[2])
              tm == txn_tablet_maps[s]
              tm2 == txn_tablet_maps'[s]
              pm2 == txn_partition_maps'[s]
          IN /\ last'.ret = "OK"
             /\ ~Has(txn_tablet_maps', key, last'.tablet_info)
             /\ IF DOMAIN tm[key] = {last'.tablet_info}
                THEN /\ key \notin DOMAIN tm2
                     /\ ~(key[2] \in DOMAIN pm2 /\ key[1] \in pm2[key[2]])
                ELSE /\ key \in DOMAIN tm2
                     /\ tm2[key] = MapRemove(tm[key], last'.tablet_info)]_vars

\* a rollback found its entry, returned OK, and the key is gone from the
\* transaction map and the partition index
C24_Witness ==
    /\ last.op = "rollback"
    /\ last.flag
    /\ last.ret = "OK"
    /\ last.key \notin DOMAIN txn_tablet_maps[ShardOf(last.key[2])]
    /\ last.key[2] \notin DOMAIN txn_partition_maps[ShardOf(last.key[2])]

\* TxnManager::get_partition_ids: the partitions the index holds for the
\* transaction
get_partition_ids(pm, transaction_id) ==
    IF transaction_id \in DOMAIN pm THEN pm[transaction_id] ELSE {}

\* C34: in every shard the partition index of a transaction contains a
\* partition exactly when the transaction map has the key (partition,
\* transaction), and every key of the transaction map maps to a non-empty
\* tablet map; get_partition_ids returns exactly the partitions that still
\* hold an entry of the transaction.
C34_IndexMatchesMap ==
    \A s \in Shards :
        /\ \A key \in DOMAIN txn_tablet_maps[s] : DOMAIN txn_tablet_maps[s][key] # {}
        /\ \A t \in DOMAIN txn_partition_maps[s] : txn_partition_maps[s][t] # {}
        /\ \A t \in TxnIds :
             get_partition_ids(txn_partition_maps[s], t)
                 = {p \in PartitionIds : TxnKey(p, t) \in DOMAIN txn_tablet_maps[s]}

\* a delete removed the last entry of a transaction, whose index entry is
\* gone with it, while another transaction keeps its key and index entry
C34_Witness ==
    /\ last.op = "delete" /\ last.ret = "OK"
    /\ get_partition_ids(txn_partition_maps[ShardOf(last.key[2])], last.key[2]) = {}
    /\ \E t \in TxnIds \ {last.key[2]} :
         get_partition_ids(txn_partition_maps[ShardOf(t)], t) # {}
    /\ ncalls >= 3

PublishStepRank(step) ==
    CASE step = "make_visible" -> 1
      [] step = "update_delete_bitmap" -> 2
      [] step = "flush" -> 3
      [] step = "merge_rowset_meta" -> 4
      [] step = "erase_segment" -> 5
      [] step = "save_meta" -> 6
      [] step = "add_to_binlog" -> 7
      [] step = "save" -> 8
      [] step = "erase" -> 9

PublishIo(io) == {io[i] : i \in DOMAIN io}

\* C37: a publish that found its rowset runs its steps in the order
\* make-visible, delete-bitmap update (only for a merge-on-write entry),
\* binlog append, final metadata save, entry removal; a failed binlog append
\* ends it before the metadata save, and the entry is removed only after the
\* metadata save succeeded.
C37_PublishOrder ==
    [][(ncalls' = ncalls + 1 /\ last'.op = "publish" /\ last'.io # <<>>)
       => /\ last'.io[1] = "make_visible"
          /\ \A i, j \in DOMAIN last'.io :
               i < j => PublishStepRank(last'.io[i]) < PublishStepRank(last'.io[j])
          /\ "update_delete_bitmap" \in PublishIo(last'.io)
               => Entry(txn_tablet_maps, last'.key, last'.tablet_info)
                      .unique_key_merge_on_write
          /\ last'.ret = "ROWSET_ADD_TO_BINLOG_FAILED"
               => /\ "save" \notin PublishIo(last'.io)
                  /\ last'.io[Len(last'.io)] = "add_to_binlog"
          /\ ~Has(txn_tablet_maps', last'.key, last'.tablet_info)
               => /\ last'.ret = "OK"
                  /\ Len(last'.io) >= 2
                  /\ last'.io[Len(last'.io)] = "erase"
                  /\ last'.io[Len(last'.io) - 1] = "save"]_vars

\* a publish of a merge-on-write entry with binlog enabled ran every step
C37_Witness ==
    /\ last.op = "publish" /\ last.ret = "OK"
    /\ last.io = <<"make_visible", "update_delete_bitmap", "save_meta",
                   "add_to_binlog", "save", "erase">>
    /\ ~Has(txn_tablet_maps, last.key, last.tablet_info)

\* =================================================== claims under SpecConc
OrderedOps == {"commit", "publish", "rollback", "delete"}

\* the steps that read or write the ledger, a rowset or the meta store
AccessPcs == {"commit_check", "commit_save", "commit_install",
              "publish_lookup", "publish_visible", "publish_io", "publish_remove",
              "rollback_body", "delete_body"}

\* the call of thread a has made its first access and not yet its last
Between(a) ==
    \/ thread[a].op = "commit"
         /\ thread[a].pc \in {"commit_save", "commit_wrlock", "commit_install"}
    \/ thread[a].op = "publish"
         /\ thread[a].pc \in {"publish_visible", "publish_io", "publish_lock_txn2",
                              "publish_wrlock", "publish_remove"}

\* C8: while a commit, publish, rollback or delete is between its first and
\* its last access to the ledger or the meta store, no other commit, publish,
\* rollback or delete on the same transaction id makes an access of its own.
C8_TotalOrder ==
    [][\A a, b \in Threads :
         (/\ a # b
          /\ Between(a)
          /\ thread[b].op \in OrderedOps
          /\ thread[b].key[2] = thread[a].key[2]
          /\ thread[b].pc \in AccessPcs)
         => thread'[b] = thread[b]]_vars

HoldsShardLock(t) ==
    \E s \in Shards : map_wlock[s] = t \/ t \in map_rlock[s]

\* C21: a thread that saves to or removes from the meta store in a step holds
\* no shard lock, read or write, in that step.
C21_NoMetaIoUnderShardLock ==
    [][\A t \in Threads :
         (thread'[t] # thread[t] /\ meta_store' # meta_store)
         => ~HoldsShardLock(t)]_vars

\* C33: a publish and a delete of the same (transaction, tablet) entry never
\* both return success: after a delete returned OK with the rowset's meta
\* removed, no publish of that entry returns OK with the rowset made visible
\* and its meta saved.
C33_PublishDeleteExclusive ==
    [][~(/\ last.op = "delete" /\ last.ret = "OK" /\ last.io = <<"remove">>
         /\ last'.op = "publish" /\ last'.ret = "OK" /\ last'.io # <<>>
         /\ last'.key = last.key /\ last'.tablet_info = last.tablet_info)]_vars

\* the steps of a call in progress
ConcRuns(t) ==
    \/ conc_prepare_lock(t) \/ conc_prepare_body(t)
    \/ conc_commit_lock_txn(t) \/ conc_commit_rdlock(t) \/ conc_commit_check(t)
    \/ conc_commit_save(t) \/ conc_commit_wrlock(t) \/ conc_commit_install(t)
    \/ conc_publish_lock_txn(t) \/ conc_publish_rdlock(t) \/ conc_publish_lookup(t)
    \/ conc_publish_visible(t) \/ conc_publish_io(t) \/ conc_publish_lock_txn2(t)
    \/ conc_publish_wrlock(t) \/ conc_publish_remove(t)
    \/ conc_rollback_lock(t) \/ conc_rollback_body(t)
    \/ conc_delete_lock(t) \/ conc_delete_body(t)
    \/ conc_set_lock_txn(t) \/ conc_set_wrlock(t) \/ conc_set_body(t)
    \/ conc_force_lock(t) \/ conc_force_body(t)

ShardLocksOf(t) == {s \in Shards : map_wlock[s] = t \/ t \in map_rlock[s]}
TxnLocksOf(t) == {i \in TxnLocks : txn_mutex[i] = t}

\* C38: concurrent ledger operations never deadlock. A thread holds at most
\* one shard lock and at most one per-transaction mutex, a thread outside a
\* call holds none, a thread that takes a per-transaction mutex holds no
\* shard lock at that moment, and whenever some call is in progress some
\* call in progress can take its next step.
C38_NoDeadlock ==
    /\ [](\A t \in Threads :
            /\ Cardinality(ShardLocksOf(t)) <= 1
            /\ Cardinality(TxnLocksOf(t)) <= 1
            /\ At(t, "idle") => (ShardLocksOf(t) = {} /\ TxnLocksOf(t) = {}))
    /\ []((\E t \in Threads : ~At(t, "idle")) => ENABLED (\E t \in Threads : ConcRuns(t)))
    /\ [][\A t \in Threads :
            TxnLocksOf(t)' # TxnLocksOf(t) /\ TxnLocksOf(t)' # {}
                => ShardLocksOf(t) = {}]_vars

\* a publish holds its per-transaction mutex and the shard's write lock for
\* Step 5 while a delete of the same transaction waits for the shard lock
C38_Witness ==
    \E t1, t2 \in Threads :
        /\ t1 # t2
        /\ At(t1, "publish_remove") /\ At(t2, "delete_lock")
        /\ thread[t1].key = thread[t2].key
        /\ TxnLocksOf(t1) # {} /\ ShardLocksOf(t1) # {}

\* ============================================= claims under SpecCompaction
Quiescent ==
    /\ \A s \in Submitters : submitter[s].pc = "idle"
    /\ \A i \in DOMAIN pool_tasks : pool_tasks[i].pc = "done"

\* C9: the limiter's outstanding permits are never negative, never above the
\* ceiling, and zero once every submission has returned and every submitted
\* task has completed.
C9_PermitsBounded ==
    /\ used_permits >= 0
    /\ used_permits <= total_permits_for_compaction_score
    /\ Quiescent => used_permits = 0

SubmittedSet(compaction_type) ==
    IF compaction_type = "CUMULATIVE_COMPACTION"
    THEN tablet_submitted_cumu_compaction
    ELSE tablet_submitted_base_compaction
InSubmitted(tablet, compaction_type) ==
    tablet.tablet_id \in SubmittedSet(compaction_type)[tablet.data_dir]

\* an accepted submission of the tablet for the class has not ended: its
\* caller is past the push and has not returned, or its closure is not done
InProgress(tablet, compaction_type) ==
    \/ \E s \in Submitters :
         /\ submitter[s].pc \notin {"idle", "push"}
         /\ submitter[s].tablet = tablet
         /\ submitter[s].compaction_type = compaction_type
    \/ \E i \in DOMAIN pool_tasks :
         /\ pool_tasks[i].pc # "done"
         /\ pool_tasks[i].tablet = tablet
         /\ pool_tasks[i].compaction_type = compaction_type

\* C10: a submission of a tablet for a class made while an accepted one has
\* not ended returns AlreadyExist, starts no task and leaves the limiter
\* alone; an accepted submission ends, on every path, with the tablet id out
\* of the class's submitted set; a submission made when none is in progress is
\* accepted.
C10_Dedupe ==
    [][/\ \A s \in Submitters :
            (submitter[s].pc = "push" /\ submitter'[s] # submitter[s])
            => IF InProgress(submitter[s].tablet, submitter[s].compaction_type)
               THEN /\ submitter'[s].pc = "idle"
                    /\ submit_last' = Submit(submitter[s].tablet,
                                             submitter[s].compaction_type,
                                             submitter[s].force, "AlreadyExist")
                    /\ UNCHANGED <<pool_tasks, used_permits>>
               ELSE /\ submitter'[s].pc = "prepare"
                    /\ UNCHANGED submit_last
       /\ \A tablet \in CompactionTablets, compaction_type \in CompactionTypes :
            /\ InProgress(tablet, compaction_type)
                   => InSubmitted(tablet, compaction_type)
            /\ (InProgress(tablet, compaction_type)
                   /\ ~InProgress(tablet, compaction_type)')
               => ~InSubmitted(tablet, compaction_type)'
            /\ Len(SelectSeq(pool_tasks,
                       LAMBDA x : /\ x.pc # "done"
                                  /\ x.tablet = tablet
                                  /\ x.compaction_type = compaction_type)) <= 1]_vars

\* a duplicate was rejected while the first submission ran, the first
\* submission has ended, and a new submission of the same tablet and class is
\* accepted
C10_Witness ==
    \E s \in Submitters, i \in DOMAIN pool_tasks :
        /\ submit_last.ret = "AlreadyExist"
        /\ submit_last.tablet = submitter[s].tablet
        /\ submit_last.compaction_type = submitter[s].compaction_type
        /\ submitter[s].pc = "prepare"
        /\ pool_tasks[i].pc = "done"
        /\ pool_tasks[i].tablet = submitter[s].tablet
        /\ pool_tasks[i].compaction_type = submitter[s].compaction_type

\* C12: a submission that requested permits releases them exactly once, in
\* its closure or on the pool's refusal, and a submission that requested none
\* releases none.
C12_ReleasesMatchRequests ==
    /\ \A s \in Submitters :
         /\ submitter[s].released <= (IF submitter[s].requested THEN 1 ELSE 0)
         /\ submitter[s].pc = "pop"
                => submitter[s].released = (IF submitter[s].requested THEN 1 ELSE 0)
    /\ \A i \in DOMAIN pool_tasks :
         /\ pool_tasks[i].released <= (IF pool_tasks[i].requested THEN 1 ELSE 0)
         /\ pool_tasks[i].pc = "done"
                => pool_tasks[i].released = (IF pool_tasks[i].requested THEN 1 ELSE 0)

\* a closure is queued without a request only for a forced submission
ForcedTask(i) == ~pool_tasks[i].requested

\* C13: no step of a forced submission, in _submit_compaction_task or in its
\* closure, changes the limiter's outstanding permits.
C13_ForceBypassesLimiter ==
    [][/\ \A s \in Submitters :
            (submitter[s].force /\ submitter'[s] # submitter[s])
            => UNCHANGED used_permits
       /\ \A i \in DOMAIN pool_tasks :
            (ForcedTask(i) /\ pool_tasks'[i] # pool_tasks[i])
            => UNCHANGED used_permits]_vars


\* the step leaves the submitted set of the other class as it is
OtherClassUnchanged(compaction_type) ==
    IF compaction_type = "CUMULATIVE_COMPACTION"
    THEN UNCHANGED tablet_submitted_base_compaction
    ELSE UNCHANGED tablet_submitted_cumu_compaction

\* the tablet is in the class's submitted set after the step
InSubmittedNext(tablet, compaction_type) ==
    tablet.tablet_id \in
        (IF compaction_type = "CUMULATIVE_COMPACTION"
         THEN tablet_submitted_cumu_compaction'
         ELSE tablet_submitted_base_compaction')[tablet.data_dir]

\* C30: the push of a submission is accepted exactly when the tablet is not
\* in the submitted set of the submission's own class, whatever the other
\* class's set holds, and a push or a pop (by the caller or by the closure)
\* for one class leaves the other class's set unchanged.
C30_PerClassExclusive ==
    [][/\ \A s \in Submitters :
            (submitter[s].pc = "push" /\ submitter'[s] # submitter[s])
            => /\ submitter'[s].pc = "prepare"
                    <=> ~InSubmitted(submitter[s].tablet, submitter[s].compaction_type)
               /\ InSubmittedNext(submitter[s].tablet, submitter[s].compaction_type)
               /\ OtherClassUnchanged(submitter[s].compaction_type)
       /\ \A s \in Submitters :
            (submitter[s].pc = "pop" /\ submitter'[s] # submitter[s])
            => /\ ~InSubmittedNext(submitter[s].tablet, submitter[s].compaction_type)
               /\ OtherClassUnchanged(submitter[s].compaction_type)
       /\ \A i \in DOMAIN pool_tasks :
            (pool_tasks[i].pc = "pop" /\ pool_tasks'[i] # pool_tasks[i])
            => /\ ~InSubmittedNext(pool_tasks[i].tablet, pool_tasks[i].compaction_type)
               /\ OtherClassUnchanged(pool_tasks[i].compaction_type)]_vars

\* a tablet whose cumulative compaction is queued has been admitted for base
\* compaction as well: it is in both submitted sets
C30_Witness ==
    \E s \in Submitters, i \in DOMAIN pool_tasks :
        /\ submitter[s].pc = "prepare"
        /\ submitter[s].compaction_type = "BASE_COMPACTION"
        /\ pool_tasks[i].pc = "execute"
        /\ pool_tasks[i].compaction_type = "CUMULATIVE_COMPACTION"
        /\ pool_tasks[i].tablet = submitter[s].tablet
        /\ InSubmitted(submitter[s].tablet, "BASE_COMPACTION")
        /\ InSubmitted(submitter[s].tablet, "CUMULATIVE_COMPACTION")

\* every admitted submission resets the tablet's compaction once: not before
\* its pop, once by its pop, and never in both the caller and the closure
ResetOnce ==
    /\ \A s \in Submitters :
         /\ submitter[s].resets = (IF submitter[s].pc = "pop" THEN 1 ELSE 0)
    /\ \A i \in DOMAIN pool_tasks :
         /\ pool_tasks[i].resets
                = (IF pool_tasks[i].pc \in {"pop", "done"} THEN 1 ELSE 0)

\* a tablet id is in a submitted set only while a submission of it is running
NoOrphan ==
    \A tablet \in CompactionTablets, compaction_type \in CompactionTypes :
        InSubmitted(tablet, compaction_type) => InProgress(tablet, compaction_type)

\* C25: a tablet admitted into a submitted set leaves it eventually, whichever
\* path the submission takes; the submission resets the tablet's compaction
\* exactly once; no tablet id is in a submitted set without a submission of
\* it pending or running.
C25_AdmittedLeaves ==
    /\ [](ResetOnce /\ NoOrphan)
    /\ \A tablet \in CompactionTablets, compaction_type \in CompactionTypes :
         InSubmitted(tablet, compaction_type) ~> ~InSubmitted(tablet, compaction_type)
    /\ \A i \in 1..MaxFairSubmits :
         (i \in DOMAIN pool_tasks) ~> TaskAt(i, "done")
    /\ \A s \in Submitters : (submitter[s].pc # "idle") ~> (submitter[s].pc = "idle")

\* a closure has run to its end: its tablet was reset once and is out of the
\* submitted set, after a submission the pool had refused
C25_Witness ==
    \E i \in DOMAIN pool_tasks :
        /\ pool_tasks[i].pc = "done"
        /\ pool_tasks[i].resets = 1
        /\ ~InSubmitted(pool_tasks[i].tablet, pool_tasks[i].compaction_type)
        /\ submit_last.ret = "InternalError"
        /\ submit_last.tablet = pool_tasks[i].tablet
        /\ submit_last.compaction_type = pool_tasks[i].compaction_type

\* C39: a _submit_compaction_task call returns OK only in the step that
\* queues its closure on the pool; a call that queues nothing returns a
\* status that is not OK.
C39_OkOnlyIfQueued ==
    [][\A s \in Submitters :
         (~SubmitAt(s, "idle") /\ submitter'[s].pc = "idle" /\ submit_last'.ret = "OK")
         => Len(pool_tasks') = Len(pool_tasks) + 1]_vars

\* ================================================ claims under SpecRanking
Occupied(d) ==
    Cardinality(tablet_submitted_cumu_compaction[d])
        + Cardinality(tablet_submitted_base_compaction[d])

OneSlotLeft(d) ==
    /\ ranking_last.compaction_type # "none"
    /\ Occupied(d) = ranking_last.thread_per_disk[d] - 1

\* C11 as worded: in a round over a data directory with exactly one free
\* slot, a cumulative pick is allowed, and a base pick is allowed only if the
\* directory runs no cumulative task.
C11_LastSlot_Claimed ==
    \A d \in DataDirs :
        OneSlotLeft(d)
        => /\ ranking_last.compaction_type = "CUMULATIVE_COMPACTION"
                  => ranking_last.need_pick_tablet[d]
           /\ (ranking_last.compaction_type = "BASE_COMPACTION"
                  /\ ranking_last.need_pick_tablet[d])
                  => tablet_submitted_cumu_compaction[d] = {}

\* C11: in a round over a data directory with exactly one free slot, a
\* cumulative pick is allowed, and a base pick is allowed exactly when the
\* directory's submitted set holds a cumulative task; a tablet is returned
\* only for a directory whose pick is allowed.
C11_LastSlot ==
    /\ \A d \in DataDirs :
         OneSlotLeft(d)
         => /\ ranking_last.compaction_type = "CUMULATIVE_COMPACTION"
                   => ranking_last.need_pick_tablet[d]
            /\ ranking_last.compaction_type = "BASE_COMPACTION"
                   => (ranking_last.need_pick_tablet[d]
                           <=> tablet_submitted_cumu_compaction[d] # {})
    /\ \A i \in ranking_last.tablets :
         ranking_last.need_pick_tablet[i % NumDataDirs]

\* slot count 2, one cumulative task running, a base round: the pick is
\* allowed and a tablet comes back
C11_Witness ==
    \E d \in DataDirs :
        /\ ranking_last.compaction_type = "BASE_COMPACTION"
        /\ ranking_last.thread_per_disk[d] = 2
        /\ Cardinality(tablet_submitted_cumu_compaction[d]) = 1
        /\ tablet_submitted_base_compaction[d] = {}
        /\ ranking_last.need_pick_tablet[d]
        /\ \E i \in ranking_last.tablets : i % NumDataDirs = d

\* C29: a ranking round returns at most one tablet of each data directory;
\* a returned tablet is not in the submitted set of the round's class for
\* its directory, as the round copied it, and its schema does not disable
\* auto compaction.
C29_RankingRound ==
    /\ \A d \in DataDirs :
         Cardinality({i \in ranking_last.tablets : i % NumDataDirs = d}) <= 1
    /\ \A i \in ranking_last.tablets :
         /\ i \notin SubmittedSet(ranking_last.compaction_type)[i % NumDataDirs]
         /\ ~ranking_last.disable_auto_compaction[i % NumDataDirs]

\* a round returned a tablet of a directory while another tablet of the
\* directory is in the submitted set of the round's class
C29_Witness ==
    \E i \in ranking_last.tablets :
        /\ SubmittedSet(ranking_last.compaction_type)[i % NumDataDirs] # {}
        /\ ranking_last.need_pick_tablet[i % NumDataDirs]

\* ================================================ claims under SpecProducer
\* C26: when a closure popped its tablet after the producer's ranking found
\* nothing and before the producer's wait returned, the wait returns by the
\* flag the pop set, not by the timeout.
C26_NoMissedWakeup ==
    [][(/\ ProducerAt("wait")
        /\ producer'.pc = "latch"
        /\ DoneCount > producer.done_at_scan)
       => producer'.woken_by = "notify"]_vars

\* C27: a producer whose round found no candidate begins its wait and the
\* wait returns, by the flag or by the timeout.
C27_WaitResumes ==
    /\ ProducerAt("sleep") ~> ProducerAt("wait")
    /\ ProducerAt("wait") ~> (ProducerAt("latch") /\ producer.woken_by # "none")

\* no closure exists, so no slot can be released, and the wait has returned
\* by the timeout
C27_Witness ==
    /\ ProducerAt("latch")
    /\ producer.woken_by = "timeout"
    /\ pool_tasks = <<>>

\* the class of the i-th round when every cumulative_rounds cumulative rounds
\* are followed by one base round
RoundClass(i, cumulative_rounds) ==
    IF i % (cumulative_rounds + 1) = 0
    THEN "BASE_COMPACTION"
    ELSE "CUMULATIVE_COMPACTION"

\* C28: with the ratio N fixed, the i-th production round is a base round
\* when i is a multiple of N + 1 and a cumulative round otherwise, whether or
\* not the rounds before it found a candidate, and a round submits for no
\* class but the one it ranked.
C28_RoundsAlternate ==
    \A i \in 1..Len(rounds) :
        /\ rounds[i].compaction_type =
               RoundClass(i, producer.cumulative_compaction_rounds_for_each_base_compaction_round)
        /\ rounds[i].submitted \subseteq {rounds[i].compaction_type}

\* ratio 2: two cumulative rounds, the second with no candidate, the first
\* with a submission, then a base round
C28_Witness ==
    /\ producer.cumulative_compaction_rounds_for_each_base_compaction_round = 2
    /\ Len(rounds) = 3
    /\ rounds[1].submitted = {"CUMULATIVE_COMPACTION"}
    /\ rounds[2].empty
    /\ rounds[3].compaction_type = "BASE_COMPACTION"

\* C31: after the stop latch is signalled every wait of the compaction
\* producer observes it: a step the producer takes out of a wait (the idle
\* wait on the sleep condition variable or the latch wait that ends the
\* iteration) while the latch count is 0 ends the loop.
C31_EveryWaitChecksLatch ==
    [][(/\ stop_background_threads_latch = 0
        /\ (ProducerAt("wait") \/ ProducerAt("latch"))
        /\ producer' # producer)
       => producer'.pc = "stopped"]_vars

SlotCount(d) == thread_per_disk(ranking_last.is_ssd_disk[d])
SubmittedCount(d) ==
    Cardinality(tablet_submitted_cumu_compaction[d])
        + Cardinality(tablet_submitted_base_compaction[d])

\* C35: with the producer as the only source of compaction tasks and a fixed
\* slot count per data dir, the tablets in the cumulative and the base
\* submitted set of a data dir together never outnumber the dir's slots.
C35_SubmittedWithinSlots ==
    \A d \in DataDirs : SubmittedCount(d) <= SlotCount(d)

\* every slot of a dir is taken in the third round, after a closure of an
\* earlier round completed and freed one
C35_Witness ==
    \E d \in DataDirs :
        /\ SubmittedCount(d) = SlotCount(d)
        /\ DoneCount >= 1
        /\ Len(rounds) >= 3

\* C36: with the producer as the only source of compaction tasks and a fixed
\* slot count S >= 1 per data dir, the base submitted set of a data dir
\* always holds fewer than S tablets.
C36_BaseLeavesSlot ==
    \A d \in DataDirs :
        Cardinality(tablet_submitted_base_compaction[d]) < SlotCount(d)

\* a base round found one slot left and no cumulative task in the dir, and
\* picked nothing for it
C36_Witness ==
    \E d \in DataDirs :
        /\ ranking_last.compaction_type = "BASE_COMPACTION"
        /\ ~ranking_last.need_pick_tablet[d]
        /\ Cardinality(tablet_submitted_base_compaction[d]) = SlotCount(d) - 1
        /\ tablet_submitted_cumu_compaction[d] = {}
        /\ tablet_submitted_base_compaction[d] # {}

\* =================================================== claims under SpecLoops

\* C32: once the sweeper has swept, the wait before its next sweep is the
\* interval computed from the usage the latest sweep reported, max_interval
\* times the ratio of that usage clamped to [min_interval, max_interval].
C32_WaitFollowsUsage ==
    (garbage_sweeper.pc = "wait" /\ garbage_sweeper.sweeps >= 1)
    => garbage_sweeper.curr_interval =
           garbage_sweep_interval(garbage_sweeper.max_interval,
                                  garbage_sweeper.min_interval, garbage_sweeper.usage)

\* C40: a tablet id in the running-cooldown set has a cooldown task queued
\* or running, which erases it; none stays in the set with no task.
C40_RunningHasTask ==
    cooldown.running_cooldown_tablets \subseteq cooldown.queue

====
